---- MODULE Spec2Model ----
(***************************************************************************)
(* Model of the prior-authorisation pipeline: the JSON document store      *)
(* (src/src/services/data_store.py) and the stage orchestrator             *)
(* (src/src/orchestrator.py).                                              *)
(*                                                                         *)
(* Python dicts are modelled as functions whose domain is the key set, so  *)
(* a record [a |-> 1] is the dict {"a": 1} and EmptyDict is {}.            *)
(***************************************************************************)
EXTENDS Integers, Sequences, FiniteSets, TLC

(* ------------------------------ bounds --------------------------------- *)
\* the pipeline stops taking steps once the clock has reached MaxTime
MaxTime == 8
\* number of run_pipeline calls made on the one orchestrator
MaxRuns == 1
\* number of store calls made by the direct store client
MaxStoreCalls == 3
\* number of interactive widgets on a form template
MaxWidgets == 1
\* the flushes one json.dump of a record takes
NChunks == 2
\* the populate_form calls made with one pair of entities and schema
MaxFormCalls == 2

DocIds == {"d1", "d2"}

(* ------------------------------ dicts ---------------------------------- *)
EmptyDict == [k \in {} |-> 0]

Has(d, k) == k \in DOMAIN d

\* not d
IsEmpty(d) == DOMAIN d = {}

\* d.get(k, default)
Get(d, k, default) == IF k \in DOMAIN d THEN d[k] ELSE default

\* {**d, **e}, also d.update(e)
Update(d, e) ==
    [k \in (DOMAIN d) \cup (DOMAIN e) |-> IF k \in DOMAIN e THEN e[k] ELSE d[k]]

\* a store file exists iff it holds a dict with at least one key: every file
\* the store writes carries document_id
FileExists(files, id) == DOMAIN files[id] # {}

(* --------------------------- document store ---------------------------- *)
\* _safe_json_write: the dict replaces the file, or the write raises and the
\* file keeps its content
SafeJsonWrite(files, id, data, ok) ==
    IF ok THEN [files EXCEPT ![id] = data] ELSE files

\* the created_at a metadata write keeps
KeptCreatedAtOfWrite(existing, enhanced) == enhanced["created_at"]
KeptCreatedAt(existing, enhanced) ==
    Get(existing, "created_at", enhanced["created_at"])

\* the dict save_document_metadata builds for the write
EnhancedMetadata(files, id, metadata, t) ==
    LET enhanced == Update([document_id |-> id, created_at |-> t, updated_at |-> t],
                           metadata)
    IN  IF FileExists(files, id)
        THEN [enhanced EXCEPT !["created_at"] = KeptCreatedAt(files[id], enhanced)]
        ELSE enhanced

\* save_document_metadata(document_id, metadata); it raises iff ~ok
SaveDocumentMetadata(files, id, metadata, t, ok) ==
    SafeJsonWrite(files, id, EnhancedMetadata(files, id, metadata, t), ok)

\* a Python value json cannot keep as it is: a tuple of `items`; the dicts of
\* the pipeline never carry the key "py"
PyValue(type, items) == [py |-> type, items |-> items]

\* json.load(json.dump(data)): a tuple comes back as a list, a value built of
\* dicts, lists, strings and numbers comes back as it was
JsonRoundTrip(data) ==
    IF Has(data, "py") /\ data["py"] = "tuple" THEN [data EXCEPT !["py"] = "list"]
    ELSE data

\* the dict save_processed_data would build if it dropped what the file holds
UpdatedRecordFresh(loaded, id, stage_name, data, t) ==
    Update([document_id |-> id, created_at |-> t, updated_at |-> t],
           [k \in {stage_name} |-> [data |-> JsonRoundTrip(data), timestamp |-> t]])
\* the dict save_processed_data builds from the dict it loaded, as the file
\* will hold it
UpdatedRecord(loaded, id, stage_name, data, t) ==
    LET initialised == IF Has(loaded, "document_id") THEN loaded
                       ELSE Update(loaded, [document_id |-> id, created_at |-> t])
        stamped == Update(initialised, [updated_at |-> t])
    IN  Update(stamped,
               [k \in {stage_name} |-> [data |-> JsonRoundTrip(data), timestamp |-> t]])

\* the dict save_processed_data builds for the write
UpdatedProcessedData(files, id, stage_name, data, t) ==
    UpdatedRecord(IF FileExists(files, id) THEN files[id] ELSE EmptyDict,
                  id, stage_name, data, t)

\* save_processed_data(document_id, stage_name, data); it raises iff ~ok
SaveProcessedData(files, id, stage_name, data, t, ok) ==
    SafeJsonWrite(files, id, UpdatedProcessedData(files, id, stage_name, data, t), ok)

\* how a read of the store ends
ReadResult(kind, value) == [kind |-> kind, value |-> value]

\* get_document_metadata(document_id)
GetDocumentMetadata(files, id) ==
    IF ~FileExists(files, id) THEN ReadResult("FileNotFoundError", EmptyDict)
    ELSE ReadResult("returned", files[id])

\* get_processed_data with one error for both missing cases
GetProcessedDataOneError(files, id, stage_name) ==
    IF ~FileExists(files, id) \/ ~Has(files[id], stage_name)
    THEN ReadResult("FileNotFoundError", EmptyDict)
    ELSE ReadResult("returned", files[id][stage_name]["data"])
\* get_processed_data(document_id, stage_name)
GetProcessedData(files, id, stage_name) ==
    IF ~FileExists(files, id) THEN ReadResult("FileNotFoundError", EmptyDict)
    ELSE IF ~Has(files[id], stage_name) THEN ReadResult("KeyError", EmptyDict)
    ELSE ReadResult("returned", files[id][stage_name]["data"])

(* ----------------------------- orchestrator ---------------------------- *)
\* PipelineStage, without the two bracketing members
StageOrder == << "pdf_analysis", "ocr_processing", "document_parsing",
                 "entity_extraction", "form_filling", "pdf_generation" >>

Stages == {StageOrder[i] : i \in 1..Len(StageOrder)}

\* len(PipelineStage)
PipelineStageCount == 8

StageIndex(stage) == CHOOSE i \in 1..Len(StageOrder) : StageOrder[i] = stage

\* the key f"{stage.value}_error" of the error record
ErrorKey(stage) ==
    [ initialization    |-> "initialization_error",
      pdf_analysis      |-> "pdf_analysis_error",
      ocr_processing    |-> "ocr_processing_error",
      document_parsing  |-> "document_parsing_error",
      entity_extraction |-> "entity_extraction_error",
      form_filling      |-> "form_filling_error",
      pdf_generation    |-> "pdf_generation_error" ][stage]

\* texts are sequences of characters
EmptyText == << >>
Texts == {EmptyText, <<"a">>}

\* sep.join(parts)
RECURSIVE Join(_, _)
Join(parts, sep) ==
    IF Len(parts) = 0 THEN EmptyText
    ELSE IF Len(parts) = 1 THEN parts[1]
    ELSE parts[1] \o sep \o Join(Tail(parts), sep)

\* one call to a collaborator: its name, its argument, and what came back
\* ("True"/"False" for a probe, "returned"/"raised" for a real call)
Call(name, arg, back) == << name, arg, back >>

\* what a stage function hands to _execute_stage: a result, or an exception;
\* the processed-data files as the stage function left them; the calls it
\* made to collaborators, in order
Returned(result, files, called) ==
    [raised |-> FALSE, msg |-> "", result |-> result, files |-> files, called |-> called]

Raised(msg, files, called) ==
    [raised |-> TRUE, msg |-> msg, result |-> EmptyDict, files |-> files, called |-> called]

\* self.stage_results.get(stage, {}).get("result", {})
StageResultOf(results, stage) == Get(results[stage], "result", EmptyDict)

\* _stage_pdf_analysis
StagePdfAnalysis(files, id, t, readable, is_native, wok) ==
    IF ~readable
    THEN Raised("PDF analysis failed: Error reading PDF", files, << >>)
    ELSE LET result == [page_count |-> 1, has_native_text |-> is_native,
                        needs_ocr |-> ~is_native]
         IN  IF wok
             THEN Returned(result,
                           SaveProcessedData(files, id, "pdf_analysis", result, t, wok),
                           << >>)
             ELSE Raised("PDF analysis failed: Failed to write JSON", files, << >>)

\* perform_tesseract_ocr never raises: it returns the service's result dict,
\* or a failure dict
PerformTesseractOcr(text, ok) ==
    IF ok
    THEN [success |-> TRUE, extracted_text |-> text, confidence |-> 1,
          total_pages |-> 1, processing_time |-> 1]
    ELSE [success |-> FALSE, error |-> "OCR failed", extracted_text |-> EmptyText,
          confidence |-> 0]

\* the calls perform_tesseract_ocr makes to the OCR service: one
\* perform_ocr_on_pdf, whose failure comes back as a failure dict
OcrServiceCalls(ok) ==
    << Call("service.perform_ocr_on_pdf", EmptyText, IF ok THEN "success" ELSE "failure") >>

\* the calls perform_llamaparse_with_metadata makes to the parser, through
\* perform_llamaparse and parse_document: one load_data
ParserCalls(ok) ==
    << Call("parser.load_data", EmptyText, IF ok THEN "returned" ELSE "raised") >>

\* the keys _stage_ocr_processing reads from the OCR result, in order
OcrKeysRead ==
    << "extracted_text", "confidence_score", "processing_time_seconds", "page_count" >>

\* str(KeyError(k)) for the first key of keys that d lacks
KeyErrorText(k) ==
    [ extracted_text |-> "'extracted_text'", confidence_score |-> "'confidence_score'",
      processing_time_seconds |-> "'processing_time_seconds'",
      page_count |-> "'page_count'", extracted_data |-> "'extracted_data'",
      metadata |-> "'metadata'" ][k]

FirstMissing(d, keys) ==
    keys[CHOOSE i \in 1..Len(keys) :
            /\ ~Has(d, keys[i])
            /\ \A j \in 1..(i - 1) : Has(d, keys[j])]

HasAll(d, keys) == \A i \in 1..Len(keys) : Has(d, keys[i])

\* the needs_ocr flag the OCR stage reads from the run state
NeedsOcrAlways(results) == TRUE
NeedsOcr(results) == Get(StageResultOf(results, "pdf_analysis"), "needs_ocr", TRUE)

\* _stage_ocr_processing
StageOcrProcessing(results, files, id, t, available, text, ocr_ok, wok) ==
    IF ~NeedsOcr(results)
    THEN Raised("PDF has native text, OCR not needed", files, << >>)
    ELSE IF ~available
    THEN Raised("OCR service not available", files,
                << Call("check_ocr_availability", EmptyText, "False") >>)
    ELSE LET ocr_result == PerformTesseractOcr(text, ocr_ok)
             called == << Call("check_ocr_availability", EmptyText, "True"),
                          Call("perform_tesseract_ocr", EmptyText, "returned") >>
                       \o OcrServiceCalls(ocr_ok)
         IN  IF ~HasAll(ocr_result, OcrKeysRead)
             THEN Raised(KeyErrorText(FirstMissing(ocr_result, OcrKeysRead)), files, called)
             ELSE LET result == [extracted_text |-> ocr_result["extracted_text"],
                                 confidence_score |-> ocr_result["confidence_score"],
                                 processing_time |-> ocr_result["processing_time_seconds"],
                                 page_count |-> ocr_result["page_count"]]
                  IN  IF wok
                      THEN Returned(result,
                                    SaveProcessedData(files, id, "ocr_processing", result, t, wok),
                                    called)
                      ELSE Raised("Failed to write JSON", files, called)

\* the dict extract_with_pdfplumber returns
ExtractWithPdfplumber ==
    [bounding_box_data |-> EmptyDict, table_data |-> EmptyDict, regex_data |-> EmptyDict,
     text_search_data |-> EmptyDict, metadata |-> [total_pages |-> 1]]

\* _get_primary_content
GetPrimaryContent(parsing_results) ==
    IF Get(Get(parsing_results, "llamaparse", EmptyDict), "success", FALSE)
    THEN parsing_results["llamaparse"]["markdown_content"]
    ELSE IF Get(Get(parsing_results, "pdfplumber", EmptyDict), "success", FALSE)
    THEN LET pages == Get(parsing_results["pdfplumber"]["extracted_data"], "pages", << >>)
             with_text == SelectSeq(pages, LAMBDA page_data : Has(page_data, "text"))
         IN  Join([i \in 1..Len(with_text) |-> with_text[i]["text"]], <<"\n", "\n">>)
    ELSE EmptyText

\* the entry _stage_document_parsing records for the structured parse
LlamaparseEntry(available, parse_ok, markdown) ==
    IF ~available THEN [success |-> FALSE, error |-> "LlamaParse service not available"]
    ELSE IF ~parse_ok THEN [success |-> FALSE, error |-> "ParsingError"]
    ELSE [success |-> TRUE, markdown_content |-> markdown,
          metadata |-> [parsing_method |-> "llamaparse_api"]]

\* the entry _stage_document_parsing records for the geometry/regex extraction
PdfplumberEntry(plumber_ok) ==
    IF ~plumber_ok THEN [success |-> FALSE, error |-> "ParsingError"]
    ELSE LET pdfplumber_result == ExtractWithPdfplumber
             keys == << "extracted_data", "metadata" >>
         IN  IF ~HasAll(pdfplumber_result, keys)
             THEN [success |-> FALSE,
                   error |-> KeyErrorText(FirstMissing(pdfplumber_result, keys))]
             ELSE [success |-> TRUE,
                   extracted_data |-> pdfplumber_result["extracted_data"],
                   metadata |-> pdfplumber_result["metadata"]]

\* _stage_document_parsing
StageDocumentParsing(files, id, t, available, parse_ok, markdown, plumber_ok, wok) ==
    LET parsing_results == [llamaparse |-> LlamaparseEntry(available, parse_ok, markdown),
                            pdfplumber |-> PdfplumberEntry(plumber_ok)]
        content_available == \/ parsing_results["llamaparse"]["success"]
                             \/ parsing_results["pdfplumber"]["success"]
        called == (IF available
                   THEN << Call("check_parsing_availability", EmptyText, "True"),
                           Call("perform_llamaparse_with_metadata", EmptyText,
                                IF parse_ok THEN "returned" ELSE "raised") >>
                        \o ParserCalls(parse_ok)
                   ELSE << Call("check_parsing_availability", EmptyText, "False") >>)
                  \o << Call("extract_with_pdfplumber", EmptyText,
                              IF plumber_ok THEN "returned" ELSE "raised") >>
    IN  IF ~content_available
        THEN Raised("Document parsing failed: All parsing methods failed", files, called)
        ELSE LET result == [parsing_methods |-> parsing_results,
                            content_available |-> content_available,
                            primary_content |-> GetPrimaryContent(parsing_results)]
             IN  IF wok
                 THEN Returned(result,
                               SaveProcessedData(files, id, "document_parsing", result, t, wok),
                               called)
                 ELSE Raised("Document parsing failed: Failed to write JSON", files, called)

\* _get_document_content
GetDocumentContent(results) ==
    LET parsing_results == StageResultOf(results, "document_parsing")
        ocr_results == StageResultOf(results, "ocr_processing")
    IN  IF /\ ~IsEmpty(parsing_results)
           /\ Get(parsing_results, "primary_content", EmptyText) # EmptyText
        THEN parsing_results["primary_content"]
        ELSE IF ~IsEmpty(ocr_results)
        THEN Get(ocr_results, "extracted_text", EmptyText)
        ELSE EmptyText

\* "if not document_content" in _stage_entity_extraction
ContentMissingNever(document_content) == FALSE
ContentMissing(document_content) == document_content = EmptyText

\* the entity dicts the reasoning collaborator answers with
EntitySets == {EmptyDict, [patient_first_name |-> "Jane"]}

\* validate_extracted_entities(entities)["validation_report"]
ValidationReport(entities) ==
    LET populated == {k \in DOMAIN entities : entities[k] # ""}
    IN  [total_fields |-> Cardinality(DOMAIN entities),
         populated_fields |-> Cardinality(populated)]

\* _stage_entity_extraction
StageEntityExtraction(results, files, id, t, available, llm_ok, entities, wok) ==
    IF ~available
    THEN Raised("LLM service not available", files,
                << Call("check_llm_availability", EmptyText, "False") >>)
    ELSE LET document_content == GetDocumentContent(results)
             probed == << Call("check_llm_availability", EmptyText, "True") >>
             called == probed \o << Call("extract_entities_with_gemini", document_content,
                                         IF llm_ok THEN "returned" ELSE "raised") >>
         IN  IF ContentMissing(document_content)
             THEN Raised("No document content available for entity extraction",
                         files, probed)
             ELSE IF ~llm_ok
             THEN Raised("Entity extraction failed: LLMServiceError", files, called)
             ELSE LET result == [extracted_entities |-> entities,
                                 validation_report |-> ValidationReport(entities)]
                  IN  IF wok
                      THEN Returned(result,
                                    SaveProcessedData(files, id, "entity_extraction",
                                                      result, t, wok),
                                    called)
                      ELSE Raised("Failed to write JSON", files, called)

\* the form load_and_populate_form returns for a non-empty entity set
PopulatedForm(entities, t) ==
    [form_metadata |-> [schema_name |-> "InsureCo_Ozempic", population_timestamp |-> t],
     form_data |-> [f \in DOMAIN entities |-> [value |-> entities[f]]]]

\* _stage_form_filling
StageFormFilling(results, files, id, t, available, populate_ok, wok) ==
    IF ~available
    THEN Raised("Form filler service not available", files,
                << Call("check_form_filler_availability", EmptyText, "False") >>)
    ELSE LET entities == Get(StageResultOf(results, "entity_extraction"),
                             "extracted_entities", EmptyDict)
             probed == << Call("check_form_filler_availability", EmptyText, "True") >>
             called == probed \o << Call("load_and_populate_form", EmptyText,
                                         IF populate_ok THEN "returned" ELSE "raised") >>
         IN  IF IsEmpty(entities)
             THEN Raised("No extracted entities available for form filling", files, probed)
             ELSE IF ~populate_ok
             THEN Raised("Form filling failed: FormFillerError", files, called)
             ELSE LET result == [populated_form |-> PopulatedForm(entities, t),
                                 schema_name |-> "InsureCo_Ozempic"]
                  IN  IF wok
                      THEN Returned(result,
                                    SaveProcessedData(files, id, "form_filling", result, t, wok),
                                    called)
                      ELSE Raised("Failed to write JSON", files, called)

\* what generate_filled_pdf (template fill) can do: raise, or fill `filled` of
\* the `found` widgets of the template
FillOutcomes ==
    {[raised |-> TRUE, found |-> 0, filled |-> 0]} \cup
    {o \in [raised : {FALSE}, found : 0..MaxWidgets, filled : 0..MaxWidgets] :
        o.filled <= o.found}

\* populated_data["form_metadata"]["pdf_generation"] as generate_filled_pdf sets it
WithPdfGeneration(populated_form, fill) ==
    [populated_form EXCEPT !["form_metadata"] =
        Update(@, [pdf_generation |->
                    [fill_statistics |-> [fields_found |-> fill.found,
                                          fields_filled |-> fill.filled],
                     completion_rate |-> [num |-> fill.filled, den |-> fill.found]]])]

\* len([f for f in form_data.values() if f.get("value")])
FieldsIncluded(populated_form) ==
    Cardinality({f \in DOMAIN populated_form["form_data"] :
                    populated_form["form_data"][f]["value"] # ""})

\* a tier's outcome: the stage outcome and the populated form object as the
\* tier left it
TierOutcome(outcome, form) == [outcome |-> outcome, form |-> form]

\* _generate_simple_data_pdf
GenerateSimpleDataPdf(populated_form, files, id, t, called, simple_ok, wok) ==
    LET calls == called \o << Call("_generate_simple_data_pdf", EmptyText,
                                   IF simple_ok /\ wok THEN "returned" ELSE "raised") >>
        result == [output_path |-> id, generation_type |-> "simple_data_pdf",
                   file_size_kb |-> 1, fields_included |-> FieldsIncluded(populated_form)]
    IN  IF simple_ok /\ wok
        THEN TierOutcome(Returned(result,
                                  SaveProcessedData(files, id, "pdf_generation", result, t, wok),
                                  calls),
                         populated_form)
        ELSE TierOutcome(Raised("PDF generation failed: Simple PDF generation failed",
                                files, calls),
                         populated_form)

GenerateHybridPdfNoFallback(populated_form, files, id, t, called, hybrid_ok, wok, simple_ok, wok3) ==
    IF hybrid_ok /\ wok
    THEN TierOutcome(Returned([output_path |-> id, generation_method |-> "hybrid_overlay"],
                              files,
                              called \o << Call("_generate_hybrid_pdf", EmptyText, "returned") >>),
                     populated_form)
    ELSE TierOutcome(Raised("PDF generation failed: Failed to generate hybrid PDF", files,
                            called \o << Call("_generate_hybrid_pdf", EmptyText, "raised") >>),
                     populated_form)

\* _generate_hybrid_pdf
GenerateHybridPdf(populated_form, files, id, t, called, hybrid_ok, wok, simple_ok, wok3) ==
    LET calls == called \o << Call("_generate_hybrid_pdf", EmptyText,
                                   IF hybrid_ok /\ wok THEN "returned" ELSE "fell back") >>
        result == [output_path |-> id, generation_type |-> "hybrid_pdf",
                   file_size_kb |-> 1, fields_included |-> FieldsIncluded(populated_form),
                   generation_method |-> "hybrid_overlay"]
    IN  IF hybrid_ok /\ wok
        THEN TierOutcome(Returned(result,
                                  SaveProcessedData(files, id, "pdf_generation", result, t, wok),
                                  calls),
                         populated_form)
        ELSE GenerateSimpleDataPdf(populated_form, files, id, t, calls, simple_ok, wok3)

TemplateFoundNever(template) == FALSE

\* template_path is set: user_template_path or default_template_path exists
TemplateFound(template) == template # "none"

\* user_template_path.exists(), and default_template_path.exists() when the
\* first is False
TemplateProbes(template) ==
    IF template = "user"
    THEN << Call("user_template_path.exists", EmptyText, "True") >>
    ELSE << Call("user_template_path.exists", EmptyText, "False"),
            Call("default_template_path.exists", EmptyText,
                 IF template = "default" THEN "True" ELSE "False") >>

\* what the overlay and the data document do when the stage enters
\* _generate_hybrid_pdf a second time
TierEnvs == [hybrid_ok : BOOLEAN, wok2 : BOOLEAN, simple_ok : BOOLEAN, wok3 : BOOLEAN]

ZeroMatchesNever(fill) == FALSE

\* if fields_filled == 0 and fields_found > 0
ZeroMatches(fill) == fill.filled = 0 /\ fill.found > 0

\* _stage_pdf_generation: the outcomes the stage can have. The hybrid call
\* for zero matches sits inside the try of template fill: when it raises (the
\* data document failed), the except clause calls _generate_hybrid_pdf once
\* more, and the overlay and the data document can end either way again.
StagePdfGeneration(results, files, id, t, template, fill, wok1, hybrid_ok, wok2, simple_ok, wok3) ==
    LET populated_form == Get(StageResultOf(results, "form_filling"),
                              "populated_form", EmptyDict)
        probed == TemplateProbes(template)
        tried == Append(probed, Call("generate_filled_pdf", EmptyText,
                                     IF fill.raised THEN "raised" ELSE "returned"))
    IN  IF IsEmpty(populated_form)
        THEN {TierOutcome(Raised("PDF generation failed: No populated form data available",
                                 files, << >>),
                          populated_form)}
        ELSE IF ~TemplateFound(template)
        THEN {GenerateSimpleDataPdf(populated_form, files, id, t, probed, simple_ok, wok3)}
        ELSE IF fill.raised
        THEN {GenerateHybridPdf(populated_form, files, id, t, tried,
                                hybrid_ok, wok2, simple_ok, wok3)}
        ELSE LET filled_form == WithPdfGeneration(populated_form, fill)
                 pdf_stats == filled_form["form_metadata"]["pdf_generation"]
                 result == [output_path |-> id, template_path |-> template,
                            generation_stats |-> pdf_stats, file_size_kb |-> 1,
                            generation_method |-> "form_filling"]
                 first == GenerateHybridPdf(filled_form, files, id, t, tried,
                                            hybrid_ok, wok2, simple_ok, wok3)
             IN  IF ZeroMatches(fill)
                 THEN IF first.outcome.raised
                      THEN {GenerateHybridPdf(filled_form, files, id, t, first.outcome.called,
                                              again.hybrid_ok, again.wok2,
                                              again.simple_ok, again.wok3) :
                               again \in TierEnvs}
                      ELSE {first}
                 ELSE IF ~wok1
                 THEN {first}
                 ELSE {TierOutcome(Returned(result,
                                            SaveProcessedData(files, id, "pdf_generation",
                                                              result, t, wok1),
                                            tried),
                                   filled_form)}

(* ------------------------------- state --------------------------------- *)
VARIABLES
    pc,                 \* where run_pipeline stands: "idle" between runs, else the stage to run
    document_id,        \* self.document_id
    stage_results,      \* self.stage_results: stage -> dict, {} while the key is absent
    pipeline_metadata,  \* self.pipeline_metadata
    metaFiles,          \* <id>_metadata.json per document id, {} while the file is absent
    procFiles,          \* <id>_processed.json per document id, {} while the file is absent
    now,                \* the clock datetime.now() reads
    outcome,            \* how the last run_pipeline call ended
    final_results,      \* what the last run_pipeline call returned, {} when it raised
    started,            \* history: the stages started in the current run, in order
    runStatus,          \* history: how each stage ended in the current run
    callLog,            \* history: <<stage, collaborator, argument, outcome>> calls of the current run
    funcOutcome,        \* history: what each stage function did in the current run
    runs,               \* history: the number of run_pipeline calls so far
    metaLog,            \* history: the last two metadata dicts written per document id
    firstCreated,       \* history: created_at as stored by the first metadata write, per id
    savedData,          \* history: per id and stage, the data last passed to save_processed_data and when
    lastRead,           \* history: the last read of the store and how it ended
    writers,            \* per concurrent save_processed_data call: where it stands and its locals
    fs,                 \* the data directory as the concurrent calls see it: names and file contents
    observed,           \* history: what the last concurrent read of a record saw
    written,            \* history: the dicts handed to _safe_json_write by the concurrent calls
    lastReplace,        \* history: per id, the call whose rename reached the record last
    retry,              \* GeminiService.generate_response: its position, locals and the attempts made
    formIn,             \* the entities, schema and reasoning answer a caller of populate_form holds
    formOut,            \* history: what the populate_form calls on formIn returned or raised, in order
    task,               \* the upload being processed in the background: its position and arguments
    tempFiles           \* the temporary files of the uploads that exist

vars == << pc, document_id, stage_results, pipeline_metadata, metaFiles, procFiles, now,
           outcome, final_results, started, runStatus, callLog, funcOutcome, runs, metaLog, firstCreated,
           savedData, lastRead, writers, fs, observed, written, lastReplace, retry,
           formIn, formOut, task, tempFiles >>

orchVars == << pc, document_id, stage_results, pipeline_metadata, outcome, final_results,
               started, runStatus, callLog, funcOutcome, runs >>

procVars == << savedData, lastRead >>

concVars == << writers, fs, observed, written, lastReplace >>

formVars == << formIn, formOut >>

appVars == << task, tempFiles >>

restVars == << procVars, concVars, retry, formVars, appVars >>

storeHistory == << metaLog, firstCreated, restVars >>

\* the concurrent save_processed_data calls, the stage each one writes and
\* the files they can create
WriterIds == {"w1", "w2"}
WriterStage(w) == IF w = "w1" THEN "ocr" ELSE "entities"
Inodes == 1..Cardinality(WriterIds)

IdleWriter == [pc |-> "idle", id |-> "none", rec |-> EmptyDict, fd |-> 0, off |-> 0]

NoFormInputs == [given |-> FALSE, entities |-> EmptyDict, schema |-> EmptyDict,
                 llm |-> "none", entities0 |-> EmptyDict, schema0 |-> EmptyDict]

NoError == [type |-> "none", last |-> "none"]

\* int(os.getenv("GEMINI_MAX_RETRIES", "3")) in an environment that leaves it unset
GEMINI_MAX_RETRIES == 3

IdleRetry == [pc |-> "idle", attempt |-> 0, log |-> << >>, last_error |-> "None",
              waits |-> << >>, result |-> EmptyText, error |-> NoError,
              limit |-> GEMINI_MAX_RETRIES]

NoRead == [op |-> "none", id |-> "none", stage |-> "none", kind |-> "none",
           existed |-> FALSE, had |-> FALSE]

NoTask == [state |-> "none", doc_id |-> "none", form |-> FALSE, runs0 |-> 0,
           created |-> 0, template_saved |-> FALSE, run |-> "none", recorded |-> "none"]

NoOutcome == [kind |-> "none", stage |-> "none", at |-> "none"]

NotRun == [ran |-> FALSE, raised |-> FALSE, msg |-> ""]

Init ==
    /\ pc = "idle"
    /\ document_id = "none"
    /\ stage_results = [s \in Stages |-> EmptyDict]
    /\ pipeline_metadata = EmptyDict
    /\ final_results = EmptyDict
    /\ metaFiles = [d \in DocIds |-> EmptyDict]
    /\ procFiles = [d \in DocIds |-> EmptyDict]
    /\ now = 0
    /\ outcome = NoOutcome
    /\ started = << >>
    /\ runStatus = [s \in Stages |-> "none"]
    /\ callLog = << >>
    /\ funcOutcome = [s \in Stages |-> NotRun]
    /\ runs = 0
    /\ metaLog = [d \in DocIds |-> << >>]
    /\ firstCreated = [d \in DocIds |-> -1]
    /\ savedData = [d \in DocIds |-> EmptyDict]
    /\ lastRead = NoRead
    /\ writers = [w \in WriterIds |-> IdleWriter]
    /\ fs = [dest |-> [d \in DocIds |-> 0], temp |-> [d \in DocIds |-> 0],
             content |-> [i \in Inodes |-> << >>], used |-> 0]
    /\ observed = ReadResult("none", EmptyDict)
    /\ written = {}
    /\ lastReplace = [d \in DocIds |-> "none"]
    /\ retry = IdleRetry
    /\ formIn = NoFormInputs
    /\ formOut = << >>
    /\ task = NoTask
    /\ tempFiles = {}

(* ------------------------- orchestrator: driver ------------------------- *)
\* _save_pipeline_metadata: a failed write is logged and swallowed
SavePipelineMetadata(files, id, status, pm, t, wok) ==
    SaveDocumentMetadata(files, id, [status |-> status, pipeline_metadata |-> pm], t, wok)

\* _handle_pipeline_failure; raised: save_processed_data raised, so the
\* metadata was not saved
HandlePipelineFailure(pm, mfiles, pfiles, id, stage, msg, t, wokP, wokM) ==
    LET failed == [Update(pm, [status |-> "failed", failed_stage |-> stage,
                               error_message |-> msg])
                      EXCEPT !["stages_failed"] = Append(@, stage)]
        error == [error_message |-> msg, error_type |-> "Exception"]
    IN  IF wokP
        THEN [raised |-> FALSE, pm |-> failed,
              proc |-> SaveProcessedData(pfiles, id, ErrorKey(stage), error, t, wokP),
              meta |-> SavePipelineMetadata(mfiles, id, "pipeline_failed", failed, t, wokM)]
        ELSE [raised |-> TRUE, pm |-> failed, proc |-> pfiles, meta |-> mfiles]

\* the conditional flag run_pipeline passes to _execute_stage
IsConditionalNever(stage) == FALSE
IsConditional(stage) == stage = "ocr_processing"

\* the stage run_pipeline executes after `stage`
NextStageRepeatsOcr(stage) ==
    IF stage = "document_parsing" THEN "ocr_processing"
    ELSE IF StageIndex(stage) < Len(StageOrder) THEN StageOrder[StageIndex(stage) + 1]
    ELSE "completion"
NextStage(stage) ==
    IF StageIndex(stage) < Len(StageOrder) THEN StageOrder[StageIndex(stage) + 1]
    ELSE "completion"

Tagged(stage, called) ==
    [i \in 1..Len(called) |-> << stage, called[i][1], called[i][2], called[i][3] >>]

\* how a run that failed at `stage` ends: _execute_stage records the failure
\* and raises PipelineError(stage); when recording raises instead, run_pipeline
\* records a failure of the initialization stage and raises
\* PipelineError(INITIALIZATION), or the second recording raises as well
FailRunWith(stage, msg, results, files, woks) ==
    \E wokP, wokM \in woks :
        LET h1 == HandlePipelineFailure(pipeline_metadata, metaFiles, files,
                                        document_id, stage, msg, now, wokP, wokM)
        IN  /\ stage_results' = results
            /\ runStatus' = [runStatus EXCEPT ![stage] = "failed"]
            /\ pc' = "idle"
            /\ IF ~h1.raised
               THEN /\ pipeline_metadata' = h1.pm
                    /\ procFiles' = h1.proc
                    /\ metaFiles' = h1.meta
                    /\ outcome' = [kind |-> "PipelineError", stage |-> stage, at |-> stage]
               ELSE \E wokP2, wokM2 \in woks :
                      LET h2 == HandlePipelineFailure(h1.pm, h1.meta, h1.proc, document_id,
                                                      "initialization",
                                                      "Failed to write JSON",
                                                      now, wokP2, wokM2)
                      IN  /\ pipeline_metadata' = h2.pm
                          /\ procFiles' = h2.proc
                          /\ metaFiles' = h2.meta
                          /\ outcome' = IF ~h2.raised
                                        THEN [kind |-> "PipelineError",
                                              stage |-> "initialization", at |-> stage]
                                        ELSE [kind |-> "Exception", stage |-> "none",
                                              at |-> stage]

SkippedResultKept(old, reason) == old

\* the stage_result _execute_stage assigns for a conditional stage that raised
SkippedResult(old, reason) == [status |-> "skipped", reason |-> reason]

FailRun(stage, msg, results, files) == FailRunWith(stage, msg, results, files, BOOLEAN)

\* _execute_stage(stage, stage_func, conditional), and what run_pipeline does
\* with an exception that leaves it. o is what stage_func did, results the run
\* state as stage_func left it, woks how the store's writes can end.
ExecuteStageWith(stage, o, results, woks) ==
    /\ started' = Append(started, stage)
    /\ callLog' = callLog \o Tagged(stage, o.called)
    /\ funcOutcome' = [funcOutcome EXCEPT
                         ![stage] = [ran |-> TRUE, raised |-> o.raised, msg |-> o.msg]]
    /\ now' = now + 1
    /\ UNCHANGED << document_id, final_results, runs, storeHistory >>
    /\ IF ~o.raised
       THEN /\ stage_results' = [results EXCEPT
                                   ![stage] = [status |-> "completed", result |-> o.result]]
            /\ pipeline_metadata' = [pipeline_metadata EXCEPT
                                       !["stages_completed"] = Append(@, stage)]
            /\ procFiles' = o.files
            /\ runStatus' = [runStatus EXCEPT ![stage] = "completed"]
            /\ pc' = NextStage(stage)
            /\ UNCHANGED << metaFiles, outcome >>
       ELSE IF IsConditional(stage)
       THEN /\ stage_results' = [results EXCEPT ![stage] = SkippedResult(@, o.msg)]
            /\ pipeline_metadata' = [pipeline_metadata EXCEPT
                                       !["stages_skipped"] = Append(@, stage)]
            /\ procFiles' = o.files
            /\ runStatus' = [runStatus EXCEPT ![stage] = "skipped"]
            /\ pc' = NextStage(stage)
            /\ UNCHANGED << metaFiles, outcome >>
       ELSE FailRunWith(stage, o.msg, results, o.files, woks)

ExecuteStage(stage, o, results) == ExecuteStageWith(stage, o, results, BOOLEAN)

(* ------------------------- orchestrator: actions ------------------------ *)
\* run_pipeline up to the first stage. service_availability, document_path and
\* schema_name are stored in pipeline_metadata and not read again; they are
\* left out of the dict.
BeginRun(woks) ==
    /\ pc = "idle"
    /\ \E id \in DocIds, exists \in BOOLEAN, wok \in woks :
        /\ document_id' = id
        /\ final_results' = EmptyDict
        /\ started' = << >>
        /\ runStatus' = [s \in Stages |-> "none"]
        /\ callLog' = << >>
        /\ funcOutcome' = [s \in Stages |-> NotRun]
        /\ runs' = runs + 1
        /\ now' = now + 1
        /\ UNCHANGED << stage_results, procFiles, storeHistory >>
        /\ IF ~exists
           THEN /\ outcome' = [kind |-> "PipelineError", stage |-> "initialization",
                               at |-> "initialization"]
                /\ UNCHANGED << pc, pipeline_metadata, metaFiles >>
           ELSE LET pm == [document_id |-> id, stages_completed |-> << >>,
                           stages_skipped |-> << >>, stages_failed |-> << >>]
                IN  /\ pipeline_metadata' = pm
                    /\ metaFiles' = SavePipelineMetadata(metaFiles, id, "pipeline_started",
                                                         pm, now, wok)
                    /\ outcome' = NoOutcome
                    /\ pc' = "pdf_analysis"

StartRun ==
    /\ runs < MaxRuns
    /\ now < MaxTime
    /\ BeginRun(BOOLEAN)

PdfAnalysis ==
    /\ pc = "pdf_analysis"
    /\ now < MaxTime
    /\ \E o \in {StagePdfAnalysis(procFiles, document_id, now, readable, is_native, wok) :
                    readable \in BOOLEAN, is_native \in BOOLEAN, wok \in BOOLEAN} :
        ExecuteStage("pdf_analysis", o, stage_results)

OcrProcessing ==
    /\ pc = "ocr_processing"
    /\ now < MaxTime
    /\ \E o \in {StageOcrProcessing(stage_results, procFiles, document_id, now,
                                    available, text, ocr_ok, wok) :
                    available \in BOOLEAN, text \in Texts, ocr_ok \in BOOLEAN,
                    wok \in BOOLEAN} :
        ExecuteStage("ocr_processing", o, stage_results)

DocumentParsing ==
    /\ pc = "document_parsing"
    /\ now < MaxTime
    /\ \E o \in {StageDocumentParsing(procFiles, document_id, now, available, parse_ok,
                                      markdown, plumber_ok, wok) :
                    available \in BOOLEAN, parse_ok \in BOOLEAN, markdown \in Texts,
                    plumber_ok \in BOOLEAN, wok \in BOOLEAN} :
        ExecuteStage("document_parsing", o, stage_results)

EntityExtraction ==
    /\ pc = "entity_extraction"
    /\ now < MaxTime
    /\ \E o \in {StageEntityExtraction(stage_results, procFiles, document_id, now,
                                       available, llm_ok, entities, wok) :
                    available \in BOOLEAN, llm_ok \in BOOLEAN, entities \in EntitySets,
                    wok \in BOOLEAN} :
        ExecuteStage("entity_extraction", o, stage_results)

FormFilling ==
    /\ pc = "form_filling"
    /\ now < MaxTime
    /\ \E o \in {StageFormFilling(stage_results, procFiles, document_id, now,
                                  available, populate_ok, wok) :
                    available \in BOOLEAN, populate_ok \in BOOLEAN, wok \in BOOLEAN} :
        ExecuteStage("form_filling", o, stage_results)

\* the populated form is the object held in the FormFilling result, so what
\* template fill writes into it shows in stage_results
PdfGeneration ==
    /\ pc = "pdf_generation"
    /\ now < MaxTime
    /\ \E tier \in UNION {StagePdfGeneration(stage_results, procFiles, document_id, now,
                                             template, fill, wok1, hybrid_ok, wok2,
                                             simple_ok, wok3) :
                             template \in {"user", "default", "none"}, fill \in FillOutcomes,
                             wok1 \in BOOLEAN, hybrid_ok \in BOOLEAN, wok2 \in BOOLEAN,
                             simple_ok \in BOOLEAN, wok3 \in BOOLEAN} :
        LET results == IF Has(StageResultOf(stage_results, "form_filling"), "populated_form")
                       THEN [stage_results EXCEPT
                               !["form_filling"]["result"]["populated_form"] = tier.form]
                       ELSE stage_results
        IN  ExecuteStage("pdf_generation", tier.outcome, results)

GeneratePipelineSummaryOfStarted(pm, results) ==
    [total_stages |-> PipelineStageCount,
     completed_stages |-> Len(pm["stages_completed"]) + Len(pm["stages_skipped"]),
     skipped_stages |-> Len(pm["stages_skipped"]),
     failed_stages |-> Len(pm["stages_failed"]),
     success_rate |-> [num |-> Len(pm["stages_completed"]) + Len(pm["stages_skipped"]),
                       den |-> Len(pm["stages_completed"]) + Len(pm["stages_skipped"])],
     output_files |-> << >>]

\* _generate_pipeline_summary; success_rate is the quotient num / den
GeneratePipelineSummary(pm, results) ==
    LET pdf_gen_result == Get(results["pdf_generation"], "result", EmptyDict)
    IN  [total_stages |-> PipelineStageCount,
         completed_stages |-> Len(pm["stages_completed"]),
         skipped_stages |-> Len(pm["stages_skipped"]),
         failed_stages |-> Len(pm["stages_failed"]),
         success_rate |-> [num |-> Len(pm["stages_completed"]), den |-> PipelineStageCount],
         output_files |->
             IF ~IsEmpty(pdf_gen_result) /\ Has(pdf_gen_result, "output_path")
             THEN << [type |-> "filled_pdf", path |-> pdf_gen_result["output_path"],
                      size_kb |-> Get(pdf_gen_result, "file_size_kb", 0)] >>
             ELSE << >>]

\* the dict `results` of run_pipeline: what _execute_stage returned for each
\* of the six stages
Results == [s \in Stages |-> stage_results[s]]

\* run_pipeline after the last stage
FinishRun(woks) ==
    /\ pc = "completion"
    /\ \E wok \in woks :
        LET pm == Update(pipeline_metadata, [status |-> "completed"])
        IN  /\ pipeline_metadata' = pm
            /\ metaFiles' = SavePipelineMetadata(metaFiles, document_id,
                                                 "pipeline_completed", pm, now, wok)
            /\ outcome' = [kind |-> "returned", stage |-> "none", at |-> "none"]
            /\ final_results' = [pipeline_metadata |-> pm, stage_results |-> Results,
                                 document_id |-> document_id,
                                 summary |-> GeneratePipelineSummary(pm, Results)]
            /\ pc' = "idle"
            /\ now' = now + 1
            /\ UNCHANGED << document_id, stage_results, procFiles, started, runStatus,
                            callLog, funcOutcome, runs, storeHistory >>

Completion ==
    /\ now < MaxTime
    /\ FinishRun(BOOLEAN)

Next ==
    \/ StartRun
    \/ PdfAnalysis
    \/ OcrProcessing
    \/ DocumentParsing
    \/ EntityExtraction
    \/ FormFilling
    \/ PdfGeneration
    \/ Completion

Spec == Init /\ [][Next]_vars

(* --------------- several runs on one orchestrator instance -------------- *)
(* the API server's global orchestrator: run_pipeline is called up to
   MaxReruns times on the same object. The store's writes succeed, the
   availability probes of parsing, reasoning and form filling answer True and
   the template, when there is one, is filled; a stage can still complete,
   be skipped or fail. *)
MaxReruns == 2

RerunOutcomes(stage) ==
    CASE stage = "pdf_analysis" ->
            {StagePdfAnalysis(procFiles, document_id, now, readable, is_native, TRUE) :
                readable \in BOOLEAN, is_native \in BOOLEAN}
      [] stage = "ocr_processing" ->
            {StageOcrProcessing(stage_results, procFiles, document_id, now,
                                available, <<"a">>, TRUE, TRUE) : available \in BOOLEAN}
      [] stage = "document_parsing" ->
            {StageDocumentParsing(procFiles, document_id, now, TRUE, parse_ok, markdown,
                                  TRUE, TRUE) : parse_ok \in BOOLEAN, markdown \in Texts}
      [] stage = "entity_extraction" ->
            {StageEntityExtraction(stage_results, procFiles, document_id, now,
                                   TRUE, llm_ok, entities, TRUE) :
                llm_ok \in BOOLEAN, entities \in EntitySets}
      [] stage = "form_filling" ->
            {StageFormFilling(stage_results, procFiles, document_id, now,
                              TRUE, populate_ok, TRUE) : populate_ok \in BOOLEAN}

RerunStart ==
    /\ runs < MaxReruns
    /\ BeginRun({TRUE})

RerunStage ==
    /\ pc \in Stages \ {"pdf_generation"}
    /\ \E o \in RerunOutcomes(pc) : ExecuteStageWith(pc, o, stage_results, {TRUE})

RerunPdfGeneration ==
    /\ pc = "pdf_generation"
    /\ \E tier \in UNION {StagePdfGeneration(stage_results, procFiles, document_id, now,
                                             template, [raised |-> FALSE, found |-> 1,
                                                        filled |-> 1],
                                             TRUE, TRUE, TRUE, simple_ok, TRUE) :
                             template \in {"user", "none"}, simple_ok \in BOOLEAN} :
        ExecuteStageWith("pdf_generation", tier.outcome,
                         [stage_results EXCEPT
                             !["form_filling"]["result"]["populated_form"] = tier.form],
                         {TRUE})

RerunCompletion ==
    /\ runs <= MaxReruns
    /\ FinishRun({TRUE})

RerunNext ==
    \/ RerunStart
    \/ RerunStage
    \/ RerunPdfGeneration
    \/ RerunCompletion

RerunSpec == Init /\ [][RerunNext]_vars

(* ----------------------- upload and background task -------------------- *)
\* the temporary files of the upload with one document id: the source, and
\* the form template when one was uploaded
TempNames(id, form) == {<< id, "source" >>} \cup (IF form THEN {<< id, "form" >>} ELSE {})

\* process_documents, for the one upload whose background task is followed:
\* the temporary files are written and the background task is scheduled, or
\* writing raises, the files written so far are removed and the request is
\* rejected
Upload ==
    /\ task.state = "none"
    /\ pc = "idle"
    /\ \E id \in DocIds, form \in BOOLEAN, ok \in BOOLEAN :
        /\ task' = [NoTask EXCEPT !.doc_id = id, !.form = form,
                                  !.state = IF ok THEN "scheduled" ELSE "rejected"]
        /\ tempFiles' = IF ok THEN tempFiles \cup TempNames(id, form) ELSE tempFiles
    /\ UNCHANGED << orchVars, metaFiles, procFiles, now, metaLog, firstCreated, procVars,
                    concVars, retry, formVars >>

\* the except clause of process_document_background: the stored metadata is
\* read, marked as an error and saved; raised when the read or the save raised
RecordError(mfiles, id, t, wok) ==
    LET read == GetDocumentMetadata(mfiles, id)
        metadata == Update(read.value, [status |-> "error", updated_at |-> t,
                                        error |-> "error"])
    IN  IF read.kind # "returned" THEN [raised |-> TRUE, meta |-> mfiles]
        ELSE [raised |-> ~wok, meta |-> SaveDocumentMetadata(mfiles, id, metadata, t, wok)]

CleanedUpUnlessRaised(files, id, recorded) ==
    IF recorded = "raised" THEN files ELSE files \ TempNames(id, TRUE)

\* the finally clause: both temporary files are unlinked when they exist,
\* however the try and the except clause ended
CleanedUp(files, id, recorded) == files \ TempNames(id, TRUE)

\* how the task ends after an exception in its try block
EndInError(mfiles, run) ==
    \E wok \in BOOLEAN :
        LET rec == RecordError(mfiles, task.doc_id, now, wok)
            recorded == IF rec.raised THEN "raised" ELSE "ok"
        IN  /\ metaFiles' = rec.meta
            /\ task' = [task EXCEPT !.state = "ended", !.run = run, !.recorded = recorded]
            /\ tempFiles' = CleanedUp(tempFiles, task.doc_id, recorded)

\* the metadata dict process_document_background builds first
InitialMetadata(id, form, t) ==
    [document_id |-> id, status |-> "processing", created_at |-> t, updated_at |-> t,
     stages_completed |-> << >>, has_form_template |-> form]

\* process_document_background up to the call of run_pipeline: the initial
\* metadata is saved and the form template copied into the data directory
\* (a failed copy is logged and swallowed)
BackgroundStart ==
    /\ task.state = "scheduled"
    /\ \E wok \in BOOLEAN, copy_ok \in BOOLEAN :
        LET saved == SaveDocumentMetadata(metaFiles, task.doc_id,
                                          InitialMetadata(task.doc_id, task.form, now), now, wok)
        IN  IF wok
            THEN /\ metaFiles' = saved
                 /\ task' = [task EXCEPT !.state = "running", !.runs0 = runs, !.created = now,
                                         !.template_saved = task.form /\ copy_ok]
                 /\ UNCHANGED tempFiles
            ELSE EndInError(saved, "none")
    /\ UNCHANGED << orchVars, procFiles, now, metaLog, firstCreated, procVars,
                    concVars, retry, formVars >>

\* pipeline_orchestrator.run_pipeline(source_path, document_id=doc_id), one
\* step of it
BackgroundRun ==
    /\ task.state = "running"
    /\ pc # "idle" \/ runs = task.runs0
    /\ Next
    /\ document_id' = task.doc_id

\* process_document_background after run_pipeline: the completion is saved,
\* or the exception of the run or of that save is recorded; then the finally
\* clause
BackgroundEnd ==
    /\ task.state = "running"
    /\ pc = "idle" /\ runs = task.runs0 + 1
    /\ IF outcome.kind = "returned"
       THEN \E wok \in BOOLEAN :
               LET summary == IF task.form
                              THEN Update(final_results["summary"],
                                          [form_template_used |-> "form",
                                           form_template_saved |-> task.doc_id])
                              ELSE final_results["summary"]
                   metadata == Update(InitialMetadata(task.doc_id, task.form, task.created),
                                      [status |-> "completed", updated_at |-> now,
                                       stages_completed |-> << >>,
                                       processing_summary |-> summary])
                   saved == SaveDocumentMetadata(metaFiles, task.doc_id, metadata, now, wok)
               IN  IF wok
                   THEN /\ metaFiles' = saved
                        /\ task' = [task EXCEPT !.state = "ended", !.run = "returned",
                                                !.recorded = "ok"]
                        /\ tempFiles' = CleanedUp(tempFiles, task.doc_id, "ok")
                   ELSE EndInError(saved, "returned")
       ELSE EndInError(metaFiles, "raised")
    /\ UNCHANGED << orchVars, procFiles, now, metaLog, firstCreated, procVars,
                    concVars, retry, formVars >>

AppNext ==
    \/ Upload
    \/ BackgroundStart
    \/ BackgroundRun
    \/ BackgroundEnd

AppSpec == Init /\ [][AppNext]_vars

(* ------------------------- direct store client ------------------------- *)
\* the metadata dicts a caller of save_document_metadata passes
MetaKeys == {"status", "pages", "created_at"}
MetaVals == {7, 8}
MetaInputs ==
    {m \in UNION {[keys -> MetaVals] : keys \in SUBSET MetaKeys} :
        Has(m, "pages") => m["pages"] = 7}

\* save_document_metadata(id, metadata) called by a client of the store; a
\* call that raises leaves the file as it was
StoreSaveMetadataOf(inputs) ==
    /\ now < MaxStoreCalls
    /\ \E id \in DocIds, metadata \in inputs, ok \in BOOLEAN :
        /\ metaFiles' = SaveDocumentMetadata(metaFiles, id, metadata, now, ok)
        /\ now' = now + 1
        /\ metaLog' = IF ~ok THEN metaLog
                      ELSE [metaLog EXCEPT ![id] =
                              IF Len(@) = 0 THEN << metadata >>
                              ELSE << @[Len(@)], metadata >>]
        /\ firstCreated' = IF ok /\ ~FileExists(metaFiles, id)
                           THEN [firstCreated EXCEPT ![id] = Get(metadata, "created_at", now)]
                           ELSE firstCreated
        /\ UNCHANGED << orchVars, procFiles, restVars >>

StoreSaveMetadata == StoreSaveMetadataOf(MetaInputs)

StoreNext ==
    \/ StoreSaveMetadata

StoreSpec == Init /\ [][StoreNext]_vars

(* --------------------- store client: processed data -------------------- *)
\* the stage names and the data a caller of save_processed_data passes: a
\* dict and a tuple (the bbox of extract_with_pdfplumber is one)
StageNames == {"ocr", "entities"}
DataInputs == {PyValue("dict", 7), PyValue("tuple", 7)}

\* save_processed_data(id, stage_name, data) called by a client of the store;
\* a call that raises leaves the file as it was
StoreSaveProcessed ==
    /\ now < MaxStoreCalls
    /\ \E id \in DocIds, stage_name \in StageNames, data \in DataInputs, ok \in BOOLEAN :
        /\ procFiles' = SaveProcessedData(procFiles, id, stage_name, data, now, ok)
        /\ now' = now + 1
        /\ savedData' = IF ~ok THEN savedData
                         ELSE [savedData EXCEPT ![id] =
                                 Update(@, [k \in {stage_name} |->
                                              [data |-> data, timestamp |-> now]])]
        /\ UNCHANGED << orchVars, appVars, metaFiles, metaLog, firstCreated, lastRead, concVars, retry, formVars >>

\* the one metadata dict the client of this scenario writes
StoreCreateMetadata == StoreSaveMetadataOf({[status |-> 7]})

\* get_processed_data(id, stage_name) called by a client of the store
StoreGetProcessed ==
    \E id \in DocIds, stage_name \in StageNames :
        /\ lastRead' = [op |-> "get_processed_data", id |-> id, stage |-> stage_name,
                        kind |-> GetProcessedData(procFiles, id, stage_name).kind,
                        existed |-> ~IsEmpty(procFiles[id]),
                        had |-> stage_name \in DOMAIN procFiles[id]]
        /\ UNCHANGED << orchVars, appVars, metaFiles, procFiles, now, metaLog, firstCreated, savedData,
                        concVars, retry, formVars >>

\* get_document_metadata(id) called by a client of the store
StoreGetMetadata ==
    \E id \in DocIds :
        /\ lastRead' = [op |-> "get_document_metadata", id |-> id, stage |-> "none",
                        kind |-> GetDocumentMetadata(metaFiles, id).kind,
                        existed |-> ~IsEmpty(metaFiles[id]),
                        had |-> FALSE]
        /\ UNCHANGED << orchVars, appVars, metaFiles, procFiles, now, metaLog, firstCreated, savedData,
                        concVars, retry, formVars >>

ProcStoreNext ==
    \/ StoreSaveProcessed
    \/ StoreCreateMetadata
    \/ StoreGetProcessed
    \/ StoreGetMetadata

ProcStoreSpec == Init /\ [][ProcStoreNext]_vars

(* ----------------------- concurrent store clients ---------------------- *)
\* the text json.dump writes for a record, in the flushes it takes; the
\* records of one family are taken to serialise to flushes of equal length
Chunk(rec, part) == [rec |-> rec, part |-> part]
Hole == Chunk(EmptyDict, 0)
JsonText(rec) == [k \in 1..NChunks |-> Chunk(rec, k)]

\* write(chunk) at offset k of a file: it overwrites what is there and fills
\* a gap before it with zero bytes
WriteAt(content, k, chunk) ==
    [i \in 1..(IF k > Len(content) THEN k ELSE Len(content)) |->
        IF i = k THEN chunk
        ELSE IF i <= Len(content) THEN content[i]
        ELSE Hole]

\* the dict a text made of the flushes of several records decodes to
TornRecord(content) == [torn_of |-> {content[k].rec : k \in 1..Len(content)}]

\* _safe_json_read of a file with this content: json.load raises on a text
\* that is cut short or does not fit together, and returns the record of a
\* whole text, whichever writes its parts come from
JsonLoad(content) ==
    IF Len(content) # NChunks \/ \E k \in 1..Len(content) : content[k].part # k
    THEN ReadResult("Exception", EmptyDict)
    ELSE IF \A k \in 1..Len(content) : content[k].rec = content[1].rec
    THEN ReadResult("returned", content[1].rec)
    ELSE ReadResult("returned", TornRecord(content))

\* _safe_json_read(file_path) on the record file of a document
SafeJsonRead(files, id) ==
    IF files.dest[id] = 0 THEN ReadResult("FileNotFoundError", EmptyDict)
    ELSE JsonLoad(files.content[files.dest[id]])

\* file_path.with_suffix('.tmp') shared by every writer of the record
TempOfRecord(files, id) == files.temp[id]

\* a caller enters save_processed_data(id, WriterStage(w), data)
WriterCall(w) ==
    /\ writers[w].pc = "idle"
    /\ \E id \in DocIds :
          writers' = [writers EXCEPT ![w] = [@ EXCEPT !.pc = "load", !.id = id]]
    /\ UNCHANGED << orchVars, appVars, metaFiles, procFiles, now, metaLog, firstCreated, procVars, retry, formVars,
                    fs, observed, written, lastReplace >>

\* the call reads the record, or starts from {} when there is none or it
\* cannot be read, and builds the dict to write
WriterLoad(w) ==
    /\ writers[w].pc = "load"
    /\ LET read == SafeJsonRead(fs, writers[w].id)
           loaded == IF read.kind = "returned" THEN read.value ELSE EmptyDict
           rec == UpdatedRecord(loaded, writers[w].id, WriterStage(w),
                                PyValue("dict", 7), now)
       IN  /\ writers' = [writers EXCEPT ![w] = [@ EXCEPT !.pc = "open", !.rec = rec]]
           /\ written' = written \cup {rec}
    /\ UNCHANGED << orchVars, appVars, metaFiles, procFiles, now, metaLog, firstCreated, procVars, retry, formVars,
                    fs, observed, lastReplace >>

\* _safe_json_write: open(temp_file, 'w') creates the temp file or empties
\* the one that is there
WriterOpen(w) ==
    /\ writers[w].pc = "open"
    /\ LET id == writers[w].id
           fresh == TempOfRecord(fs, id) = 0
           inode == IF fresh THEN fs.used + 1 ELSE TempOfRecord(fs, id)
       IN  /\ fs' = [fs EXCEPT !.temp[id] = inode,
                                !.content[inode] = << >>,
                                !.used = IF fresh THEN @ + 1 ELSE @]
           /\ writers' = [writers EXCEPT ![w] = [@ EXCEPT !.pc = "dump", !.fd = inode,
                                                          !.off = 1]]
    /\ UNCHANGED << orchVars, appVars, metaFiles, procFiles, now, metaLog, firstCreated, procVars, retry, formVars,
                    observed, written, lastReplace >>

\* _safe_json_write: json.dump flushes the next part of the text to the
\* file it opened, at its own offset
WriterDump(w) ==
    /\ writers[w].pc = "dump"
    /\ LET k == writers[w].off
       IN  /\ fs' = [fs EXCEPT !.content[writers[w].fd] =
                                    WriteAt(@, k, JsonText(writers[w].rec)[k])]
           /\ writers' = [writers EXCEPT ![w] =
                              [@ EXCEPT !.off = k + 1,
                                        !.pc = IF k = NChunks THEN "replace" ELSE "dump"]]
    /\ UNCHANGED << orchVars, appVars, metaFiles, procFiles, now, metaLog, firstCreated, procVars, retry, formVars,
                    observed, written, lastReplace >>

\* _safe_json_write: temp_file.replace(file_path) renames the temp name over
\* the record, or raises when the temp name is gone (nothing to unlink then)
WriterReplace(w) ==
    /\ writers[w].pc = "replace"
    /\ LET id == writers[w].id
       IN  IF TempOfRecord(fs, id) = 0
           THEN /\ writers' = [writers EXCEPT ![w] = [@ EXCEPT !.pc = "raised"]]
                /\ UNCHANGED << fs, lastReplace >>
           ELSE /\ fs' = [fs EXCEPT !.dest[id] = TempOfRecord(fs, id), !.temp[id] = 0]
                /\ writers' = [writers EXCEPT ![w] = [@ EXCEPT !.pc = "done"]]
                /\ lastReplace' = [lastReplace EXCEPT ![id] = w]
    /\ UNCHANGED << orchVars, appVars, metaFiles, procFiles, now, metaLog, firstCreated, procVars, retry, formVars,
                    observed, written >>

\* a reader calls _safe_json_read on a record while the writers run
ReaderRead ==
    /\ \E id \in DocIds : observed' = SafeJsonRead(fs, id)
    /\ UNCHANGED << orchVars, appVars, metaFiles, procFiles, now, metaLog, firstCreated, procVars, retry, formVars,
                    writers, fs, written, lastReplace >>

ConcNext ==
    \/ \E w \in WriterIds : WriterCall(w)
    \/ \E w \in WriterIds : WriterLoad(w)
    \/ \E w \in WriterIds : WriterOpen(w)
    \/ \E w \in WriterIds : WriterDump(w)
    \/ \E w \in WriterIds : WriterReplace(w)
    \/ ReaderRead

ConcSpec == Init /\ [][ConcNext]_vars

(* ------------------------- reasoning call retries ----------------------- *)

\* str.strip()
RECURSIVE LStrip(_)
LStrip(text) ==
    IF text # << >> /\ Head(text) = " " THEN LStrip(Tail(text)) ELSE text

RECURSIVE RStrip(_)
RStrip(text) ==
    IF text # << >> /\ text[Len(text)] = " " THEN RStrip(SubSeq(text, 1, Len(text) - 1))
    ELSE text

Strip(text) == RStrip(LStrip(text))

\* what one self.model.generate_content(prompt) can do: answer with a text
\* (possibly empty or blank) or raise
AttemptOutcomes ==
    {[kind |-> "text", text |-> t, error |-> "none"] : t \in {<< >>, <<" ">>, <<"a", " ">>}}
    \cup {[kind |-> "raise", text |-> << >>, error |-> e] :
              e \in {"429 rate limit", "timeout", "invalid argument"}}

\* str(e) of the exception an attempt ends with, "none" when it returns
AttemptError(o) ==
    IF o.kind = "raise" THEN o.error
    ELSE IF o.text = << >> THEN "Empty response from Gemini API"
    ELSE "none"

\* the handler that retries transient failures only
IsRetriedTransientOnly(o) == AttemptError(o) \in {"429 rate limit", "timeout"}
\* except Exception: every failed attempt goes on to the next one
IsRetried(o) == AttemptError(o) # "none"

\* wait_time = (attempt + 1) * 2
WaitTime(attempt) == (attempt + 1) * 2

\* a caller enters generate_response(prompt)
GenerateResponse ==
    /\ retry.pc \in {"idle", "returned", "raised"}
    /\ retry' = [IdleRetry EXCEPT !.pc = "running"]
    /\ UNCHANGED << orchVars, appVars, metaFiles, procFiles, now, metaLog, firstCreated, procVars,
                    concVars, formVars >>

\* one pass of the for loop: the attempt, then return, sleep and go on, or,
\* after the last pass, the raise that follows the loop
Attempt ==
    /\ retry.pc = "running"
    /\ \E o \in AttemptOutcomes :
        LET log == Append(retry.log, o)
            last == retry.attempt = retry.limit - 1
        IN  retry' =
              IF AttemptError(o) = "none"
              THEN [retry EXCEPT !.pc = "returned", !.log = log, !.result = Strip(o.text)]
              ELSE IF IsRetried(o) /\ ~last
              THEN [retry EXCEPT !.attempt = @ + 1, !.log = log,
                                 !.last_error = AttemptError(o),
                                 !.waits = Append(@, WaitTime(retry.attempt))]
              ELSE [retry EXCEPT !.pc = "raised", !.log = log,
                                 !.last_error = AttemptError(o),
                                 !.error = [type |-> "LLMServiceError",
                                            last |-> AttemptError(o)]]
    /\ UNCHANGED << orchVars, appVars, metaFiles, procFiles, now, metaLog, firstCreated, procVars,
                    concVars, formVars >>

RetryNext ==
    \/ GenerateResponse
    \/ Attempt

\* every generate_content call made comes back
RetrySpec == Init /\ [][RetryNext]_vars /\ WF_vars(Attempt)

(* the same wrapper in processes started with GEMINI_MAX_RETRIES set to any
   limit up to MaxRetryLimit in the environment *)
MaxRetryLimit == 4

\* a caller enters generate_response(prompt) in a process whose environment
\* configured the limit
GenerateResponseConfigured ==
    /\ retry.pc \in {"idle", "returned", "raised"}
    /\ \E limit \in 1..MaxRetryLimit :
          retry' = [IdleRetry EXCEPT !.pc = "running", !.limit = limit]
    /\ UNCHANGED << orchVars, appVars, metaFiles, procFiles, now, metaLog, firstCreated, procVars,
                    concVars, formVars >>

BackoffNext ==
    \/ GenerateResponseConfigured
    \/ Attempt

BackoffSpec == Init /\ [][BackoffNext]_vars

(* ------------------------------ form filler ----------------------------- *)
\* Python's None among the string values of entities and fields
None == "<None>"

\* the values an entity, a default or a set_value action can carry, and what
\* the code asks of them: c.strip() of " " is "", the validation pattern
\* "^[A-Z]" matches "Jane" and "N/A" only
StrippedLen(v) == CASE v = "" -> 0 [] v = " " -> 0 [] v = "no" -> 2 [] v = "N/A" -> 3
                    [] v = "Jane" -> 4 [] v = "7" -> 1 [] v = "8.0" -> 3 [] v = "10.2%" -> 5
                    [] OTHER -> 4
MatchesPattern(v) == v \in {"Jane", "N/A"}

\* field_value is not None and field_value != ""
IsPopulatedValue(v) == v # None /\ v # ""

\* not field_value or str(field_value).strip() == ""
IsFalsyOrBlank(v) == v = None \/ v = "" \/ StrippedLen(v) = 0

\* _validate_field_value(value, {"pattern": "^[A-Z]"}): a pattern is matched
\* against strings only
ValidateFieldValue(v, validation) ==
    IF validation /\ v # None THEN MatchesPattern(v) ELSE TRUE

\* round(base_confidence * 1.1, 2) in hundredths
TimesOnePointOne(base) == IF base * 11 >= 1000 THEN 100 ELSE (base * 11 + 5) \div 10

\* _calculate_field_confidence, in hundredths
CalculateFieldConfidence(v, cfg) ==
    IF v # None /\ StrippedLen(v) = 0 THEN 0
    ELSE LET base == IF v # None /\ StrippedLen(v) < 3 THEN 56 ELSE 80
         IN  IF cfg.validation /\ ValidateFieldValue(v, cfg.validation)
             THEN TimesOnePointOne(base) ELSE base

\* _populate_field: << field_value, confidence >>
PopulateField(cfg, entities) ==
    IF cfg.source_field = "" THEN << None, 0 >>
    ELSE LET found == Get(entities, cfg.source_field, None)
         IN  IF found # None /\ cfg.validation /\ ~ValidateFieldValue(found, cfg.validation)
             THEN << None, 0 >>
             ELSE LET value == IF (found = None \/ found = "") /\ cfg.default_value # None
                               THEN cfg.default_value ELSE found
                  IN  << value, CalculateFieldConfidence(value, cfg) >>

\* the order in which field_mappings.items() yields the fields
FieldOrder == << "f1", "f2", "f3" >>
IsMapped(mappings, f) == f \in DOMAIN mappings
FieldsOf(mappings) == SelectSeq(FieldOrder, LAMBDA f : IsMapped(mappings, f))

Remove(seq, x) == SelectSeq(seq, LAMBDA y : y # x)
Contains(seq, x) == \E i \in 1..Len(seq) : seq[i] = x

\* populate_form before any field is populated
InitialForm(schema, t) ==
    [form_metadata |-> [schema_name |-> Get(schema, "schema_name", "unknown"),
                        population_timestamp |-> t,
                        populated_fields_count |-> 0,
                        total_fields_count |-> Cardinality(DOMAIN schema["field_mappings"]),
                        missing_fields |-> << >>,
                        confidence_scores |-> EmptyDict],
     form_data |-> EmptyDict]

\* the loop of populate_form over field_mappings.items()
RECURSIVE PopulateFields(_, _, _, _)
PopulateFields(fields, mappings, entities, form) ==
    IF fields = << >> THEN form
    ELSE LET f == Head(fields)
             cfg == mappings[f]
             r == PopulateField(cfg, entities)
             entry == [value |-> r[1], source |-> cfg.source_field, confidence |-> r[2],
                       required |-> cfg.required, data_type |-> "string"]
             md == form.form_metadata
             md2 == IF IsPopulatedValue(r[1])
                    THEN [md EXCEPT !.populated_fields_count = @ + 1,
                                    !.confidence_scores = Update(@, [k \in {f} |-> r[2]])]
                    ELSE IF cfg.required
                    THEN [md EXCEPT !.missing_fields = Append(@, f)]
                    ELSE md
         IN  PopulateFields(Tail(fields), mappings, entities,
                            [form_metadata |-> md2,
                             form_data |-> Update(form.form_data, [k \in {f} |-> entry])])

\* str(value): the characters of the values a numeric rule meets
Chars(v) ==
    CASE v = None -> << "N", "o", "n", "e" >>
      [] v = "" -> << >>
      [] v = " " -> << " " >>
      [] v = "7" -> << "7" >>
      [] v = "8.0" -> << "8", ".", "0" >>
      [] v = "8 %" -> << "8", " ", "%" >>
      [] v = "10.2%" -> << "1", "0", ".", "2", "%" >>
      [] v = "high" -> << "h", "i", "g", "h" >>
      [] v = "Jane" -> << "J", "a", "n", "e" >>
      [] v = "no" -> << "n", "o" >>
      [] v = "N/A" -> << "N", "/", "A" >>

KeepPercent(text) == text

\* text.replace('%', '')
RemovePercent(text) == SelectSeq(text, LAMBDA c : c # "%")

Digits == {"0", "1", "2", "3", "4", "5", "6", "7", "8", "9"}
DigitValue(c) ==
    CASE c = "0" -> 0 [] c = "1" -> 1 [] c = "2" -> 2 [] c = "3" -> 3 [] c = "4" -> 4
      [] c = "5" -> 5 [] c = "6" -> 6 [] c = "7" -> 7 [] c = "8" -> 8 [] c = "9" -> 9

\* float(text) raises ValueError unless the text is a literal; the texts
\* modelled carry no sign, exponent, underscore, "inf" or "nan"
IsFloatLiteral(text) ==
    /\ \A i \in 1..Len(text) : text[i] \in Digits \cup {"."}
    /\ \E i \in 1..Len(text) : text[i] \in Digits
    /\ Cardinality({i \in 1..Len(text) : text[i] = "."}) <= 1

RECURSIVE DigitsValue(_)
DigitsValue(digits) ==
    IF digits = << >> THEN 0
    ELSE 10 * DigitsValue(SubSeq(digits, 1, Len(digits) - 1)) + DigitValue(digits[Len(digits)])

RECURSIVE PowerOfTen(_)
PowerOfTen(n) == IF n = 0 THEN 1 ELSE 10 * PowerOfTen(n - 1)

\* float(text) of a literal is the quotient Numerator / Denominator
DotAt(text) ==
    IF \E i \in 1..Len(text) : text[i] = "."
    THEN CHOOSE i \in 1..Len(text) : text[i] = "." ELSE Len(text) + 1
Whole(text) == SubSeq(text, 1, DotAt(text) - 1)
Fraction(text) == SubSeq(text, DotAt(text) + 1, Len(text))
Numerator(text) ==
    DigitsValue(Whole(text)) * PowerOfTen(Len(Fraction(text))) + DigitsValue(Fraction(text))
Denominator(text) == PowerOfTen(Len(Fraction(text)))

\* str(value).replace('%', '').strip()
NumericText(v) == Strip(RemovePercent(Chars(v)))

\* the try block of greater_than (greater) and less_than: both sides lose
\* their percent signs and outer blanks and are compared as floats; a
\* ValueError gives False
CompareAsNumbers(actual, expected, greater) ==
    /\ IsFloatLiteral(NumericText(actual))
    /\ IsFloatLiteral(NumericText(expected))
    /\ IF greater
       THEN Numerator(NumericText(actual)) * Denominator(NumericText(expected))
               > Numerator(NumericText(expected)) * Denominator(NumericText(actual))
       ELSE Numerator(NumericText(actual)) * Denominator(NumericText(expected))
               < Numerator(NumericText(expected)) * Denominator(NumericText(actual))

\* _evaluate_simple_rule for the condition types "not_empty", "empty",
\* "greater_than" and "less_than"
EvaluateSimpleRule(rule, form_data) ==
    LET condition == rule.condition
    IN  IF condition.field = "" \/ condition.field \notin DOMAIN form_data THEN FALSE
        ELSE LET actual == form_data[condition.field]["value"]
             IN  CASE condition.type = "not_empty" -> actual # None /\ StrippedLen(actual) # 0
                   [] condition.type = "empty" -> actual = None \/ StrippedLen(actual) = 0
                   [] condition.type = "greater_than" ->
                          CompareAsNumbers(actual, condition.value, TRUE)
                   [] condition.type = "less_than" ->
                          CompareAsNumbers(actual, condition.value, FALSE)
                   [] OTHER -> FALSE

\* _evaluate_complex_rule: the rule is met iff the reasoning service answers
\* the expected "yes"; an unavailable service or a failed call is a "no"
EvaluateComplexRule(rule, llm) == llm = "yes"

LlmAvailableAlways(llm) == TRUE
\* check_llm_availability() as _evaluate_complex_rule reads it
LlmAvailable(llm) == llm # "unavailable"

\* the extract_entities_with_gemini calls the complex rules of a schema make:
\* one per rule, none while the probe reports the service unavailable
ComplexRuleCalls(conditional_rules, llm) ==
    IF LlmAvailable(llm) THEN Len(conditional_rules.complex_inference_rules) ELSE 0

\* an action that acts on any field it names
TargetsFormFieldUnguarded(action, form_data) == action.field # ""
\* field_name and field_name in populated_form["form_data"]
TargetsFormField(action, form_data) ==
    action.field # "" /\ action.field \in DOMAIN form_data

NotYetMissingAlways(missing_fields, f) == TRUE

\* if field_name not in populated_form["form_metadata"]["missing_fields"]
NotYetMissing(missing_fields, f) == ~Contains(missing_fields, f)

CountedBeforeNever(confidence_scores, f) == FALSE

\* field_name in populated_form["form_metadata"]["confidence_scores"]
CountedBefore(confidence_scores, f) == Has(confidence_scores, f)

\* one action of _apply_rule_actions on << form, conditional_metadata >>
ApplyAction(action, form, cm) ==
    LET f == action.field
        fd == form.form_data
        md == form.form_metadata
        old == Get(fd, f, EmptyDict)
    IN  IF action.type = "make_required" /\ TargetsFormField(action, fd)
        THEN LET entry == Update(old, [required |-> TRUE, conditional_requirement |-> TRUE])
                 missing == IF IsFalsyOrBlank(Get(old, "value", None))
                               /\ NotYetMissing(md.missing_fields, f)
                            THEN Append(md.missing_fields, f) ELSE md.missing_fields
             IN  << [form_metadata |-> [md EXCEPT !.missing_fields = missing],
                     form_data |-> Update(fd, [k \in {f} |-> entry])],
                    [cm EXCEPT !.conditional_requirements_added = @ + 1] >>
        ELSE IF action.type = "set_value" /\ TargetsFormField(action, fd)
        THEN LET entry == Update(old, [value |-> action.value,
                                       confidence |-> action.confidence,
                                       conditional_value |-> TRUE])
                 md2 == IF ~IsFalsyOrBlank(action.value)
                        THEN [md EXCEPT
                                !.populated_fields_count =
                                    IF CountedBefore(md.confidence_scores, f) THEN @ ELSE @ + 1,
                                !.confidence_scores =
                                    Update(@, [k \in {f} |-> action.confidence]),
                                !.missing_fields = Remove(@, f)]
                        ELSE md
             IN  << [form_metadata |-> md2, form_data |-> Update(fd, [k \in {f} |-> entry])],
                    [cm EXCEPT !.conditional_values_set = @ + 1] >>
        ELSE IF action.type = "add_note"
        THEN << [form EXCEPT !.form_metadata =
                     Update(md, [conditional_notes |->
                                   Append(Get(md, "conditional_notes", << >>), action.value)])],
                cm >>
        ELSE << form, cm >>

\* _apply_rule_actions: the actions of a triggered rule, in order
RECURSIVE ApplyRuleActions(_, _, _)
ApplyRuleActions(actions, form, cm) ==
    IF actions = << >> THEN << form, cm >>
    ELSE LET r == ApplyAction(Head(actions), form, cm)
         IN  ApplyRuleActions(Tail(actions), r[1], r[2])

RECURSIVE ApplySimpleRulesLastFirst(_, _, _)
ApplySimpleRulesLastFirst(rules, form, cm) ==
    IF rules = << >> THEN << form, cm >>
    ELSE LET last == rules[Len(rules)]
             evaluated == [cm EXCEPT !.rules_evaluated = @ + 1]
             r == IF EvaluateSimpleRule(last, form.form_data)
                  THEN ApplyRuleActions(last.actions, form,
                                        [evaluated EXCEPT !.rules_triggered = @ + 1])
                  ELSE << form, evaluated >>
         IN  ApplySimpleRulesLastFirst(SubSeq(rules, 1, Len(rules) - 1), r[1], r[2])

\* the loop of _apply_conditional_rules over the simple rules
RECURSIVE ApplySimpleRules(_, _, _)
ApplySimpleRules(rules, form, cm) ==
    IF rules = << >> THEN << form, cm >>
    ELSE LET evaluated == [cm EXCEPT !.rules_evaluated = @ + 1]
             r == IF EvaluateSimpleRule(Head(rules), form.form_data)
                  THEN ApplyRuleActions(Head(rules).actions, form,
                                        [evaluated EXCEPT !.rules_triggered = @ + 1])
                  ELSE << form, evaluated >>
         IN  ApplySimpleRules(Tail(rules), r[1], r[2])

\* the loop of _apply_conditional_rules over the complex inference rules
RECURSIVE ApplyComplexRules(_, _, _, _)
ApplyComplexRules(rules, llm, form, cm) ==
    IF rules = << >> THEN << form, cm >>
    ELSE LET evaluated == [cm EXCEPT !.rules_evaluated = @ + 1]
             r == IF EvaluateComplexRule(Head(rules), llm)
                  THEN ApplyRuleActions(Head(rules).actions, form,
                                        [evaluated EXCEPT !.rules_triggered = @ + 1,
                                                          !.llm_inferences = @ + 1])
                  ELSE << form, evaluated >>
         IN  ApplyComplexRules(Tail(rules), llm, r[1], r[2])

\* _apply_conditional_rules
ApplyConditionalRules(form, conditional_rules, llm) ==
    LET cm0 == [rules_evaluated |-> 0, rules_triggered |-> 0, llm_inferences |-> 0,
                conditional_requirements_added |-> 0, conditional_values_set |-> 0]
        simple == ApplySimpleRules(conditional_rules.simple_rules, form, cm0)
        complex == ApplyComplexRules(conditional_rules.complex_inference_rules, llm,
                                     simple[1], simple[2])
    IN  [complex[1] EXCEPT !.form_metadata =
            Update(@, [conditional_logic |-> complex[2]])]

\* populated / total cut to hundredths
CompletionRateTruncated(populated, total) ==
    IF total > 0 THEN (100 * populated) \div total ELSE 0
\* round(populated / total, 2) if total > 0 else 0, in hundredths; no
\* quotient of the fields counts modelled lies half way between two hundredths
CompletionRate(populated, total) ==
    IF total > 0 THEN (200 * populated + total) \div (2 * total) ELSE 0

\* _validate_schema and _validate_conditional_rules: the two keys, a
\* source_field in every mapping, and the field a simple rule tests must be a
\* mapped field
SchemaIsValid(schema) ==
    /\ Has(schema, "schema_name") /\ Has(schema, "field_mappings")
    /\ \A f \in DOMAIN schema["field_mappings"] :
          Has(schema["field_mappings"][f], "source_field")
    /\ \A i \in 1..Len(schema["conditional_rules"].simple_rules) :
          schema["conditional_rules"].simple_rules[i].condition.field
              \in DOMAIN schema["field_mappings"]

HasRules(conditional_rules) ==
    conditional_rules.simple_rules # << >> \/ conditional_rules.complex_inference_rules # << >>

\* populate_form(extracted_entities, form_schema) at time t, the reasoning
\* service answering llm
PopulateForm(entities, schema, llm, t) ==
    IF ~SchemaIsValid(schema)
    THEN [kind |-> "FormFillerError", form |-> EmptyDict, llm_calls |-> 0]
    ELSE LET mappings == schema["field_mappings"]
             filled == PopulateFields(FieldsOf(mappings), mappings, entities,
                                      InitialForm(schema, t))
             ruled == IF HasRules(schema["conditional_rules"])
                      THEN ApplyConditionalRules(filled, schema["conditional_rules"], llm)
                      ELSE filled
             md == ruled.form_metadata
         IN  [kind |-> "returned",
              llm_calls |-> ComplexRuleCalls(schema["conditional_rules"], llm),
              form |-> [ruled EXCEPT !.form_metadata =
                          Update(md, [completion_rate |->
                                        CompletionRate(md.populated_fields_count,
                                                       md.total_fields_count)])]]

\* what populate_form leaves in the schema it was given, had make_required
\* been written into the mapping
SchemaAfterPopulateShared(schema, result) ==
    IF result.kind # "returned" THEN schema
    ELSE [schema EXCEPT !["field_mappings"] =
            [f \in DOMAIN @ |-> [@[f] EXCEPT !.required = result.form.form_data[f]["required"]]]]
\* what populate_form leaves in the schema it was given: it assigns into the
\* form it builds only
SchemaAfterPopulate(schema, result) == schema

\* what populate_form leaves in the entities it was given
EntitiesAfterPopulate(entities, result) == entities

(* the inputs a caller passes: f1 with any configuration, f2 required, f3
   optional, the first n of them mapped; at most one simple rule on f1 and
   one complex rule, each with one action *)
FieldConfigs ==
    [source_field : {"f1"}, required : BOOLEAN, default_value : {None, "N/A"},
     validation : BOOLEAN]

MappingInputs ==
    {EmptyDict}
    \cup {[f \in {"f1"} |-> c] : c \in FieldConfigs}
    \cup {[f \in {"f1", "f2"} |->
             IF f = "f1" THEN c
             ELSE [source_field |-> "f2", required |-> TRUE, default_value |-> None,
                   validation |-> FALSE]] : c \in FieldConfigs}
    \cup {[f \in {"f1", "f2", "f3"} |->
             IF f = "f1" THEN c
             ELSE IF f = "f2"
             THEN [source_field |-> "f2", required |-> TRUE, default_value |-> None,
                   validation |-> FALSE]
             ELSE [source_field |-> "f3", required |-> FALSE, default_value |-> None,
                   validation |-> FALSE]] : c \in FieldConfigs}

ActionInputs ==
    {[type |-> "make_required", field |-> f, value |-> None, confidence |-> 70] :
        f \in {"f1", "f2"}}
    \cup {[type |-> "set_value", field |-> "f1", value |-> v, confidence |-> 70] :
             v \in {None, "", "Jane"}}
    \cup {[type |-> "set_value", field |-> "f2", value |-> "Jane", confidence |-> 70],
          [type |-> "add_note", field |-> "", value |-> "note", confidence |-> 70]}

SimpleRuleInputs ==
    {<< >>}
    \cup {<< [condition |-> [type |-> ty, field |-> "f1"], actions |-> << a >>] >> :
             ty \in {"empty", "not_empty"}, a \in ActionInputs}

ComplexRuleInputs ==
    {<< >>} \cup {<< [llm_inference |-> [prompt |-> "p"], actions |-> << a >>] >> :
                     a \in ActionInputs}

\* schemas without schema_name, without field_mappings, and with a mapping
\* without source_field
MalformedSchemaInputs ==
    LET rules == [simple_rules |-> << >>,
                  complex_inference_rules |->
                      << [llm_inference |-> [prompt |-> "p"],
                          actions |-> << [type |-> "add_note", field |-> "",
                                          value |-> "note", confidence |-> 70] >>] >>]
    IN  {[field_mappings |-> EmptyDict, conditional_rules |-> rules],
         [schema_name |-> "s", conditional_rules |-> rules],
         [schema_name |-> "s",
          field_mappings |-> [f \in {"f1"} |-> [required |-> TRUE, default_value |-> None,
                                                validation |-> FALSE]],
          conditional_rules |-> rules]}

SchemaInputs ==
    {[schema_name |-> "s", field_mappings |-> mp,
      conditional_rules |-> [simple_rules |-> sr, complex_inference_rules |-> cr]] :
        mp \in MappingInputs, sr \in SimpleRuleInputs, cr \in ComplexRuleInputs}
    \cup MalformedSchemaInputs

EntityInputs ==
    {[k \in {"f1", "f2", "f3"} |->
        IF k = "f1" THEN v1 ELSE IF k = "f2" THEN v2 ELSE "Jane"] :
        v1 \in {None, "", " ", "no", "Jane"}, v2 \in {None, "Jane"}}

\* a caller builds the entities and the schema it will populate
ReceiveFormInputs ==
    /\ ~formIn.given
    /\ \E entities \in EntityInputs, schema \in SchemaInputs, llm \in {"yes", "no"} :
          formIn' = [given |-> TRUE, entities |-> entities, schema |-> schema, llm |-> llm,
                     entities0 |-> entities, schema0 |-> schema]
    /\ UNCHANGED << orchVars, appVars, metaFiles, procFiles, now, metaLog, firstCreated, procVars,
                    concVars, retry, formOut >>

\* populate_form(entities, schema) on the objects the caller holds
PopulateFormCall ==
    /\ formIn.given
    /\ Len(formOut) < MaxFormCalls
    /\ LET result == PopulateForm(formIn.entities, formIn.schema, formIn.llm, now)
       IN  /\ formOut' = Append(formOut, result)
           /\ formIn' = [formIn EXCEPT
                           !.schema = SchemaAfterPopulate(formIn.schema, result),
                           !.entities = EntitiesAfterPopulate(formIn.entities, result)]
    /\ now' = now + 1
    /\ UNCHANGED << orchVars, appVars, metaFiles, procFiles, metaLog, firstCreated, procVars,
                    concVars, retry >>

FormNext ==
    \/ ReceiveFormInputs
    \/ PopulateFormCall

FormSpec == Init /\ [][FormNext]_vars

(* ------------------------ form filler: rule chains ---------------------- *)
(* the inputs of a caller whose schema maps f1 (a measurement, optional) and
   f2 (required or not) and declares up to two simple rules: numeric
   comparisons on f1, emptiness tests on f2, each with one or two actions *)
RuleMappingInputs ==
    {[f \in {"f1", "f2"} |->
        [source_field |-> f, required |-> f = "f2" /\ required2, default_value |-> None,
         validation |-> FALSE]] : required2 \in BOOLEAN}

RuleConditionInputs ==
    {[type |-> "greater_than", field |-> "f1", value |-> v] : v \in {"8.0", "high"}}
    \cup {[type |-> "less_than", field |-> "f1", value |-> v] : v \in {"8 %", "high"}}
    \cup {[type |-> ty, field |-> "f2", value |-> None] : ty \in {"empty", "not_empty"}}

RuleActionInputs ==
    LET require2 == [type |-> "make_required", field |-> "f2", value |-> None, confidence |-> 70]
    IN  {<< require2 >>, << require2, require2 >>,
         << [type |-> "set_value", field |-> "f2", value |-> "Jane", confidence |-> 70] >>,
         << [type |-> "set_value", field |-> "f1", value |-> "7", confidence |-> 70] >>}

RuleInputs == [condition : RuleConditionInputs, actions : RuleActionInputs]

RuleSchemaInputs ==
    {[schema_name |-> "s", field_mappings |-> mp,
      conditional_rules |-> [simple_rules |-> sr, complex_inference_rules |-> << >>]] :
        mp \in RuleMappingInputs,
        sr \in {<< >>} \cup {<< r >> : r \in RuleInputs}
                  \cup {<< r1, r2 >> : r1 \in RuleInputs, r2 \in RuleInputs}}

RuleEntityInputs ==
    {[k \in {"f1", "f2"} |-> IF k = "f1" THEN v1 ELSE v2] :
        v1 \in {None, "7", "10.2%", "high"}, v2 \in {None, "", "Jane"}}

\* a caller builds the entities and a schema with a chain of simple rules
ReceiveRuleInputs ==
    /\ ~formIn.given
    /\ \E entities \in RuleEntityInputs, schema \in RuleSchemaInputs :
          formIn' = [given |-> TRUE, entities |-> entities, schema |-> schema, llm |-> "no",
                     entities0 |-> entities, schema0 |-> schema]
    /\ UNCHANGED << orchVars, appVars, metaFiles, procFiles, now, metaLog, firstCreated,
                    procVars, concVars, retry, formOut >>

RuleNext ==
    \/ ReceiveRuleInputs
    \/ PopulateFormCall

RuleSpec == Init /\ [][RuleNext]_vars

(* ------------- pipeline runs and direct populate_form calls ------------ *)
(* a process that either runs the pipeline or populates a form whose schema
   declares one complex inference rule, the reasoning service answering yes
   or no, or being reported unavailable by its probe *)
ProbeSchemaInputs ==
    {[schema_name |-> "s",
      field_mappings |-> [f \in {"f1"} |->
                            [source_field |-> "f1", required |-> required,
                             default_value |-> None, validation |-> FALSE]],
      conditional_rules |->
          [simple_rules |-> << >>,
           complex_inference_rules |->
               << [llm_inference |-> [prompt |-> "p"],
                   actions |-> << [type |-> "set_value", field |-> "f1", value |-> "Jane",
                                   confidence |-> 70] >>] >>]] : required \in BOOLEAN}

ReceiveProbeInputs ==
    /\ ~formIn.given
    /\ pc = "idle" /\ runs = 0
    /\ \E v1 \in {None, "no"}, schema \in ProbeSchemaInputs,
          llm \in {"yes", "no", "unavailable"} :
          formIn' = [given |-> TRUE, entities |-> [k \in {"f1"} |-> v1], schema |-> schema,
                     llm |-> llm, entities0 |-> [k \in {"f1"} |-> v1], schema0 |-> schema]
    /\ UNCHANGED << orchVars, appVars, metaFiles, procFiles, now, metaLog, firstCreated,
                    procVars, concVars, retry, formOut >>

PipelineRun == ~formIn.given /\ Next

ProbeNext ==
    \/ PipelineRun
    \/ ReceiveProbeInputs
    \/ PopulateFormCall

ProbeSpec == Init /\ [][ProbeNext]_vars

(* ------------------------------- claims -------------------------------- *)
RunEnded == pc = "idle" /\ outcome.kind # "none"

\* the calls of the current run made to one collaborator
CallsTo(name) == {i \in 1..Len(callLog) : callLog[i][2] = name}

\* the stage ended the way the next stage may follow it
EndedForNext(stage) ==
    \/ runStatus[stage] = "completed"
    \/ stage = "ocr_processing" /\ runStatus[stage] = "skipped"

\* C1: the stages of a run are started in the fixed order, each one only
\* after every earlier stage ended Completed (or Skipped, for OCR), and none
\* is started twice.
C1_StagesInFixedOrder ==
    /\ Len(started) <= Len(StageOrder)
    /\ \A i \in 1..Len(started) :
        /\ started[i] = StageOrder[i]
        /\ \A j \in 1..(i - 1) : EndedForNext(StageOrder[j])
    /\ pc \in Stages =>
        /\ pc = StageOrder[Len(started) + 1]
        /\ \A j \in 1..Len(started) : EndedForNext(StageOrder[j])

C1_Witness == outcome.kind = "returned" /\ Len(started) = Len(StageOrder)

\* C2: when the stage function of a non-conditional stage raises, no later
\* stage is started, run_pipeline raises a PipelineError naming that stage,
\* and the stage entries already in the processed-data record are unchanged.
C2_FailureHaltsNamingStage ==
    [][\A s \in Stages \ {"ocr_processing"} :
          (pc = s /\ funcOutcome'[s].ran /\ funcOutcome'[s].raised) =>
              /\ pc' = "idle"
              /\ outcome'.kind = "PipelineError"
              /\ outcome'.stage = s
              /\ \A e \in Stages :
                    Has(procFiles[document_id], e) =>
                        /\ Has(procFiles'[document_id], e)
                        /\ procFiles'[document_id][e] = procFiles[document_id][e]]_vars

\* C3: when the conditional stage's function raises, the stage result is
\* Skipped with the exception text as reason, the stage is in stages_skipped,
\* nothing is raised, and document parsing is next.
C3_ConditionalFailureSkips ==
    LET f == funcOutcome["ocr_processing"]
    IN  (f.ran /\ f.raised) =>
            /\ stage_results["ocr_processing"] = [status |-> "skipped", reason |-> f.msg]
            /\ \E i \in 1..Len(pipeline_metadata["stages_skipped"]) :
                    pipeline_metadata["stages_skipped"][i] = "ocr_processing"
            /\ outcome.at # "ocr_processing"
            /\ pc = "document_parsing" \/ Len(started) >= 3

C3_Witness ==
    /\ funcOutcome["ocr_processing"].msg = "OCR service not available"
    /\ funcOutcome["document_parsing"].ran

\* PdfAnalysis of the current run reported a native PDF
NativePdf ==
    /\ runStatus["pdf_analysis"] = "completed"
    /\ ~StageResultOf(stage_results, "pdf_analysis")["needs_ocr"]

LaterStages == {"document_parsing", "entity_extraction", "form_filling", "pdf_generation"}

\* C4: for a native PDF the OCR stage is Skipped as not needed without a
\* probe or an OCR call, and the run goes on: when every later stage function
\* returns, the run reaches completion.
C4_NativePdfSkipsOcr ==
    (NativePdf /\ funcOutcome["ocr_processing"].ran) =>
        /\ stage_results["ocr_processing"] =
              [status |-> "skipped", reason |-> "PDF has native text, OCR not needed"]
        /\ \A i \in 1..Len(callLog) : callLog[i][1] # "ocr_processing"
        /\ outcome.at # "ocr_processing"
        /\ (\A s \in LaterStages : funcOutcome[s].ran /\ ~funcOutcome[s].raised) =>
              (pc = "completion" \/ outcome.kind = "returned")

C4_Witness == NativePdf /\ outcome.kind = "returned"

\* C5: a run ends with a returned result or with a PipelineError whose stage
\* is the stage at which the failure occurred; nothing else escapes.
C5_OnlyPipelineErrorEscapes ==
    RunEnded =>
        /\ outcome.kind \in {"returned", "PipelineError"}
        /\ outcome.kind = "PipelineError" => outcome.stage = outcome.at

\* C6: a run that returned left the stored status pipeline_completed with the
\* completed and skipped stages; a run that raised left pipeline_failed with
\* the failed stage and an error record for it.
C6_TerminalStatePersisted ==
    RunEnded =>
        /\ FileExists(metaFiles, document_id)
        /\ LET stored == metaFiles[document_id]
           IN  IF outcome.kind = "returned"
               THEN /\ stored["status"] = "pipeline_completed"
                    /\ stored["pipeline_metadata"]["stages_completed"]
                          = pipeline_metadata["stages_completed"]
                    /\ stored["pipeline_metadata"]["stages_skipped"]
                          = pipeline_metadata["stages_skipped"]
               ELSE /\ stored["status"] = "pipeline_failed"
                    /\ Get(stored["pipeline_metadata"], "failed_stage", "none") = outcome.at
                    /\ Has(procFiles[document_id], ErrorKey(outcome.at))

\* a strategy of DocumentParsing succeeded: its collaborator returned
StrategySucceeded(name) == \E i \in CallsTo(name) : callLog[i][4] = "returned"

\* the entry the DocumentParsing result holds for a strategy agrees with what
\* the strategy did
StrategyRecorded(entry, name) ==
    /\ Has(entry, "success")
    /\ entry["success"] = StrategySucceeded(name)
    /\ ~entry["success"] => Has(entry, "error")

\* C7: DocumentParsing fails iff both strategies fail; when one succeeds the
\* stage is Completed and its result records each strategy's success or error.
C7_ParsingFailsIffBothFail ==
    LET f == funcOutcome["document_parsing"]
        both_failed == /\ ~StrategySucceeded("perform_llamaparse_with_metadata")
                       /\ ~StrategySucceeded("extract_with_pdfplumber")
    IN  f.ran =>
            /\ f.raised <=> both_failed
            /\ ~both_failed =>
                /\ runStatus["document_parsing"] = "completed"
                /\ LET methods == StageResultOf(stage_results,
                                                "document_parsing")["parsing_methods"]
                   IN  /\ StrategyRecorded(methods["llamaparse"],
                                           "perform_llamaparse_with_metadata")
                       /\ StrategyRecorded(methods["pdfplumber"], "extract_with_pdfplumber")

\* the content the two earlier stages supply to EntityExtraction
SuppliedContent ==
    LET primary == Get(StageResultOf(stage_results, "document_parsing"),
                       "primary_content", EmptyText)
        ocr_text == Get(StageResultOf(stage_results, "ocr_processing"),
                        "extracted_text", EmptyText)
    IN  IF primary # EmptyText THEN primary ELSE ocr_text

\* C8: the entity-extraction collaborator is called only with the non-empty
\* content the earlier stages supply; with none, the stage fails without a call.
C8_ExtractionNeedsContent ==
    /\ \A i \in CallsTo("extract_entities_with_gemini") :
        /\ callLog[i][3] # EmptyText
        /\ callLog[i][3] = SuppliedContent
    /\ (funcOutcome["entity_extraction"].ran /\ SuppliedContent = EmptyText) =>
        /\ runStatus["entity_extraction"] = "failed"
        /\ pc = "idle"
        /\ outcome.at = "entity_extraction"
        /\ CallsTo("extract_entities_with_gemini") = {}

C8_Witness ==
    /\ funcOutcome["entity_extraction"].msg
          = "No document content available for entity extraction"
    /\ CallsTo("check_llm_availability") # {}

\* the keys of a metadata write that the merge rule covers: created_at has
\* its own rule (C10)
MergedKeys(m) == (DOMAIN m) \ {"created_at"}

\* C9: after two metadata writes m1, m2 on one id the stored record has every
\* key of m1 that m2 does not set, with m1's value, and every key of m2 with
\* m2's value.
C9_MetadataMergedShallowly ==
    \A id \in DocIds :
        Len(metaLog[id]) = 2 =>
            LET m1 == metaLog[id][1]
                m2 == metaLog[id][2]
                stored == metaFiles[id]
            IN  /\ \A k \in MergedKeys(m1) \ MergedKeys(m2) :
                        Has(stored, k) /\ stored[k] = m1[k]
                /\ \A k \in MergedKeys(m2) : Has(stored, k) /\ stored[k] = m2[k]

OnlyOwnStageKeys ==
    \A id \in DocIds :
        /\ (DOMAIN procFiles[id]) \cap StageNames = DOMAIN savedData[id]
        /\ \A s \in DOMAIN savedData[id] :
              /\ procFiles[id][s]["timestamp"] = savedData[id][s]["timestamp"]
              /\ procFiles[id][s]["data"] = JsonRoundTrip(savedData[id][s]["data"])

C14_ReadErrorsDistinct ==
    [][lastRead' # lastRead =>
          /\ lastRead'.kind = "FileNotFoundError" <=> ~lastRead'.existed
          /\ lastRead'.kind = "KeyError" <=>
                /\ lastRead'.op = "get_processed_data"
                /\ lastRead'.existed
                /\ ~lastRead'.had
          /\ lastRead'.kind \in {"FileNotFoundError", "KeyError", "returned"}
          /\ metaFiles' = metaFiles
          /\ procFiles' = procFiles]_vars

\* a stage key asked of a record that has another one
C14_Witness ==
    /\ lastRead.kind = "KeyError"
    /\ ~IsEmpty(procFiles[lastRead.id])
    /\ ~IsEmpty(metaFiles["d1"])

\* C12: whatever the interleaving of reads with writes of a record, two
\* writers of the same record included, a read that succeeds returns exactly
\* the dict of one single write.
C12_ReadsSeeOneWholeWrite ==
    observed.kind = "returned" => observed.value \in written

WritersEnded == \A w \in WriterIds : writers[w].pc \in {"done", "raised"}

\* C13: once two interleaved save_processed_data calls have ended, a record
\* both wrote is the dict of the call that renamed last, and records of
\* different ids each hold the dict of their own call, none lost.
C13_LastRenameWins ==
    WritersEnded =>
        /\ \A id \in DocIds :
              lastReplace[id] # "none" =>
                  SafeJsonRead(fs, id) =
                      ReadResult("returned", writers[lastReplace[id]].rec)
        /\ writers["w1"].id # writers["w2"].id =>
              \A w \in WriterIds :
                  /\ writers[w].pc = "done"
                  /\ SafeJsonRead(fs, writers[w].id) =
                         ReadResult("returned", writers[w].rec)

AllFailed(log) == \A i \in 1..Len(log) : AttemptError(log[i]) # "none"

RetrySafe ==
    /\ Len(retry.log) <= GEMINI_MAX_RETRIES
    /\ retry.pc = "running" => Len(retry.log) < GEMINI_MAX_RETRIES /\ AllFailed(retry.log)
    /\ retry.pc = "returned" =>
          /\ retry.log # << >>
          /\ AttemptError(retry.log[Len(retry.log)]) = "none"
          /\ AllFailed(SubSeq(retry.log, 1, Len(retry.log) - 1))
          /\ retry.result = Strip(retry.log[Len(retry.log)].text)
    /\ retry.pc = "raised" =>
          /\ Len(retry.log) = GEMINI_MAX_RETRIES
          /\ AllFailed(retry.log)
          /\ retry.error.type = "LLMServiceError"
          /\ retry.error.last = AttemptError(retry.log[GEMINI_MAX_RETRIES])

FormCalls == {i \in 1..Len(formOut) : formOut[i].kind = "returned"}

MissingOf(i) == formOut[i].form.form_metadata["missing_fields"]

\* C16: in every returned form missing_fields lists, each once, exactly the
\* fields that are required and empty: every required field whose value is
\* None or "" is listed, and a listed field is a required field of the form
\* whose value is None, "" or blank.
C16_MissingFieldsExact ==
    \A i \in FormCalls :
        LET form_data == formOut[i].form.form_data
            missing == MissingOf(i)
        IN  /\ \A f \in DOMAIN form_data :
                  (form_data[f]["required"] /\ ~IsPopulatedValue(form_data[f]["value"]))
                      => Contains(missing, f)
            /\ \A k \in 1..Len(missing) :
                  /\ missing[k] \in DOMAIN form_data
                  /\ form_data[missing[k]]["required"]
                  /\ IsFalsyOrBlank(form_data[missing[k]]["value"])
                  /\ \A l \in 1..Len(missing) : missing[l] = missing[k] => l = k

\* C17 as stated: in every returned form completion_rate is exactly
\* populated_fields_count / total_fields_count, and 0 when the total is 0.
C17_RateIsExactQuotient ==
    \A i \in FormCalls :
        LET md == formOut[i].form.form_metadata
        IN  IF md["total_fields_count"] = 0 THEN md["completion_rate"] = 0
            ELSE md["completion_rate"] * md["total_fields_count"]
                     = 100 * md["populated_fields_count"]

\* C17 amended: in every returned form completion_rate is the hundredth
\* nearest to populated_fields_count / total_fields_count, the count being
\* the one left by the conditional rules, and 0 when the total is 0.
C17_RateIsRoundedQuotient ==
    \A i \in FormCalls :
        LET md == formOut[i].form.form_metadata
            off == md["completion_rate"] * md["total_fields_count"]
                       - 100 * md["populated_fields_count"]
        IN  IF md["total_fields_count"] = 0 THEN md["completion_rate"] = 0
            ELSE 2 * off <= md["total_fields_count"] /\ -2 * off <= md["total_fields_count"]

\* two of three fields populated, one of them by a set_value action
C17_Witness ==
    \E i \in FormCalls :
        LET md == formOut[i].form.form_metadata
        IN  /\ md["total_fields_count"] = 3
            /\ md["populated_fields_count"] = 2
            /\ Has(md, "conditional_logic")
            /\ md["conditional_logic"].conditional_values_set >= 1
            /\ formOut[i].form.form_data["f1"]["value"] = "Jane"
            /\ formIn.entities0["f1"] = None

\* C18: every returned form counts as many fields as field_mappings has and
\* holds one form_data entry per mapped field, whatever the rules did.
C18_OneEntryPerMappedField ==
    \A i \in FormCalls :
        /\ formOut[i].form.form_metadata["total_fields_count"]
               = Cardinality(DOMAIN formIn.schema0["field_mappings"])
        /\ DOMAIN formOut[i].form.form_data = DOMAIN formIn.schema0["field_mappings"]

\* a triggered rule whose action names a field that is not mapped
C18_Witness ==
    \E i \in FormCalls :
        /\ DOMAIN formIn.schema0["field_mappings"] = {"f1"}
        /\ formIn.schema0["conditional_rules"].simple_rules # << >>
        /\ formIn.schema0["conditional_rules"].simple_rules[1].actions[1].field = "f2"
        /\ formOut[i].form.form_metadata["conditional_logic"].rules_triggered >= 1

\* C19: a field the schema marks required and gives a default_value is never
\* in missing_fields of a returned form.
C19_DefaultNeverMissing ==
    \A i \in FormCalls :
        \A f \in DOMAIN formIn.schema0["field_mappings"] :
            LET cfg == formIn.schema0["field_mappings"][f]
            IN  (cfg.required /\ cfg.default_value # None) => ~Contains(MissingOf(i), f)

WithoutTimestamp(result) ==
    IF result.kind # "returned" THEN result
    ELSE [result EXCEPT !.form.form_metadata["population_timestamp"] = 0]

RuleFields(rules) ==
    UNION {{rules[i].actions[k].field : k \in 1..Len(rules[i].actions)}
              \cup (IF Has(rules[i], "condition") THEN {rules[i].condition.field} ELSE {}) :
           i \in 1..Len(rules)} \ {""}

\* a schema the claim calls misconfigured
Misconfigured(schema) ==
    \/ ~Has(schema, "schema_name")
    \/ ~Has(schema, "field_mappings")
    \/ \E f \in DOMAIN schema["field_mappings"] :
          ~Has(schema["field_mappings"][f], "source_field")
    \/ ~(RuleFields(schema["conditional_rules"].simple_rules)
           \cup RuleFields(schema["conditional_rules"].complex_inference_rules)
             \subseteq DOMAIN schema["field_mappings"])

\* C21: populate_form on a schema without schema_name or field_mappings, with
\* a mapping without source_field, or with a rule naming an unmapped field in
\* its condition or in an action, raises FormFillerError having populated no
\* field, evaluated no rule and made no reasoning call.
C21_SchemaValidatedFirst ==
    \A i \in 1..Len(formOut) :
        Misconfigured(formIn.schema0) =>
            /\ formOut[i].kind = "FormFillerError"
            /\ IsEmpty(formOut[i].form)
            /\ formOut[i].llm_calls = 0

\* the entity of the field fails the field's validation block
FailsValidation(cfg, entities) ==
    /\ Get(entities, cfg.source_field, None) # None
    /\ cfg.validation
    /\ ~ValidateFieldValue(Get(entities, cfg.source_field, None), cfg.validation)

\* C22: a field whose entity fails its validation is populated with None and
\* confidence 0, populate_form still returns for a valid schema, and every
\* other field of the form has the value and confidence it has when the
\* failing field's entity is absent.
C22_ValidationFailureIsLocal ==
    \A i \in 1..Len(formOut) :
        SchemaIsValid(formIn.schema0) =>
            \A f \in DOMAIN formIn.schema0["field_mappings"] :
                LET cfg == formIn.schema0["field_mappings"][f]
                    absent == PopulateForm([formIn.entities0 EXCEPT ![cfg.source_field] = None],
                                           formIn.schema0, formIn.llm, 0)
                IN  FailsValidation(cfg, formIn.entities0) =>
                        /\ formOut[i].kind = "returned"
                        /\ PopulateField(cfg, formIn.entities0) = << None, 0 >>
                        /\ \A g \in (DOMAIN formOut[i].form.form_data) \ {f} :
                              /\ formOut[i].form.form_data[g]["value"]
                                     = absent.form.form_data[g]["value"]
                              /\ formOut[i].form.form_data[g]["confidence"]
                                     = absent.form.form_data[g]["confidence"]

\* the calls the PdfGeneration stage of this run made to a tier
TierCalls(name) == {i \in CallsTo(name) : callLog[i][1] = "pdf_generation"}
TierBack(name, back) == \E i \in TierCalls(name) : callLog[i][4] = back

\* the result of the PdfGeneration stage and the tier it is tagged with
PdfResult == StageResultOf(stage_results, "pdf_generation")
PdfTier == Get(PdfResult, "generation_method", Get(PdfResult, "generation_type", None))

\* fill_statistics as template fill left them in the populated form
FillStatistics ==
    stage_results["form_filling"]["result"]["populated_form"]["form_metadata"]["pdf_generation"]["fill_statistics"]

\* a template exists and Tier 1 raised, or found a field and filled none
TierOneFailed ==
    \/ TierBack("generate_filled_pdf", "raised")
    \/ /\ TierBack("generate_filled_pdf", "returned")
       /\ FillStatistics.fields_found >= 1 /\ FillStatistics.fields_filled = 0

\* C23 as stated: a failed or matchless Tier 1 gives a result tagged
\* hybrid_overlay, and a result is tagged form_filling only when Tier 1
\* completed and filled at least one field.
C23_FailedFillTaggedHybrid ==
    runStatus["pdf_generation"] = "completed" =>
        /\ TierOneFailed => PdfTier = "hybrid_overlay"
        /\ PdfTier = "form_filling" =>
              /\ TierBack("generate_filled_pdf", "returned")
              /\ FillStatistics.fields_filled >= 1

\* C23: when a template exists and Tier 1 raised, or found a field and filled
\* none, the result is never tagged form_filling: it is tagged hybrid_overlay
\* when the overlay returned and simple_data_pdf when the overlay fell back;
\* a result is tagged form_filling only when Tier 1 completed and either
\* filled a field or found no field at all.
C23_FailedFillNeverTaggedFormFilling ==
    runStatus["pdf_generation"] = "completed" =>
        /\ TierOneFailed =>
              /\ PdfTier \in {"hybrid_overlay", "simple_data_pdf"}
              /\ PdfTier = "hybrid_overlay" <=> TierBack("_generate_hybrid_pdf", "returned")
        /\ PdfTier = "form_filling" =>
              /\ TierBack("generate_filled_pdf", "returned")
              /\ FillStatistics.fields_filled >= 1 \/ FillStatistics.fields_found = 0

C23_Witness ==
    /\ runStatus["pdf_generation"] = "completed"
    /\ TierBack("generate_filled_pdf", "returned")
    /\ FillStatistics.fields_found >= 1 /\ FillStatistics.fields_filled = 0
    /\ PdfTier = "hybrid_overlay"

\* the PdfGeneration stage of this run ran with a populated form
PdfStageRan ==
    /\ funcOutcome["pdf_generation"].ran
    /\ ~IsEmpty(Get(StageResultOf(stage_results, "form_filling"), "populated_form", EmptyDict))

TemplateExists ==
    \/ TierBack("user_template_path.exists", "True")
    \/ TierBack("default_template_path.exists", "True")

\* C24: _generate_simple_data_pdf is called exactly when neither template
\* exists or a call of _generate_hybrid_pdf raised inside; it is not called
\* when a template exists and template fill gave the result, or the overlay
\* was entered and never raised inside.
C24_SimpleTierExactlyOnNoTemplateOrHybridFailure ==
    PdfStageRan =>
        /\ TierCalls("_generate_simple_data_pdf") # {}
              <=> (~TemplateExists \/ TierBack("_generate_hybrid_pdf", "fell back"))
        /\ ( /\ TemplateExists
             /\ \/ runStatus["pdf_generation"] = "completed" /\ PdfTier = "form_filling"
                \/ /\ TierCalls("_generate_hybrid_pdf") # {}
                   /\ ~TierBack("_generate_hybrid_pdf", "fell back") )
              => TierCalls("_generate_simple_data_pdf") = {}

C24_Witness ==
    /\ PdfStageRan /\ TemplateExists
    /\ TierBack("_generate_hybrid_pdf", "fell back")
    /\ runStatus["pdf_generation"] = "completed"
    /\ PdfTier = "simple_data_pdf"

\* the last call the PdfGeneration stage made
LastTierCall == callLog[Len(callLog)]

\* C25: with a populated form the PdfGeneration stage raises exactly when its
\* last call is a _generate_simple_data_pdf that raised; a template fill or an
\* overlay that failed leaves the stage Completed when the data document was
\* written, and a stage that raised halts the run at pdf_generation.
C25_PdfGenerationDegrades ==
    (PdfStageRan /\ Len(callLog) > 0) =>
        /\ funcOutcome["pdf_generation"].raised
              <=> (LastTierCall[2] = "_generate_simple_data_pdf" /\ LastTierCall[4] = "raised")
        /\ ~funcOutcome["pdf_generation"].raised => runStatus["pdf_generation"] = "completed"
        /\ funcOutcome["pdf_generation"].raised =>
              /\ runStatus["pdf_generation"] = "failed"
              /\ pc = "idle" /\ outcome.kind \in {"PipelineError", "Exception"}

C25_Witness ==
    /\ PdfStageRan
    /\ TierBack("generate_filled_pdf", "raised")
    /\ TierBack("_generate_hybrid_pdf", "fell back")
    /\ TierBack("_generate_simple_data_pdf", "returned")
    /\ runStatus["pdf_generation"] = "completed"

\* the stages of the current run that ended with one status
EndedAs(status) == {s \in Stages : runStatus[s] = status}

\* C26: in the summary of a returned run the three counts are the numbers of
\* stages that ended Completed, Skipped and Failed, every started stage is in
\* exactly one of the three, and success_rate is completed_stages over
\* len(PipelineStage).
C26_SummaryCountsStages ==
    (pc = "idle" /\ outcome.kind = "returned") =>
        LET summary == final_results["summary"]
        IN  /\ summary.completed_stages = Cardinality(EndedAs("completed"))
            /\ summary.skipped_stages = Cardinality(EndedAs("skipped"))
            /\ summary.failed_stages = Cardinality(EndedAs("failed"))
            /\ \A i \in 1..Len(started) :
                  runStatus[started[i]] \in {"completed", "skipped", "failed"}
            /\ summary.completed_stages + summary.skipped_stages + summary.failed_stages
                  = Len(started)
            /\ summary.total_stages = PipelineStageCount
            /\ summary.success_rate
                  = [num |-> summary.completed_stages, den |-> PipelineStageCount]

C26_Witness ==
    /\ pc = "idle" /\ outcome.kind = "returned"
    /\ final_results["summary"].skipped_stages = 1
    /\ final_results["summary"].completed_stages = 5
    /\ final_results["summary"].success_rate = [num |-> 5, den |-> 8]

\* C27: when the background task of an upload has ended, with the run
\* returned or raised and with the error recorded or the recording raised,
\* neither temporary file of that upload exists.
C27_TempFilesRemoved ==
    task.state = "ended" => tempFiles \cap TempNames(task.doc_id, TRUE) = {}

C27_Witness ==
    /\ task.state = "ended"
    /\ task.form
    /\ task.run = "raised"
    /\ task.recorded = "raised"
    /\ tempFiles = {}

\* the simple rules of the schema the caller passed, and the form as base
\* population leaves it
SimpleRules == formIn.schema0["conditional_rules"].simple_rules
BaseForm ==
    PopulateFields(FieldsOf(formIn.schema0["field_mappings"]), formIn.schema0["field_mappings"],
                   formIn.entities0, InitialForm(formIn.schema0, 0))

\* the number a value denotes once its percent sign is removed, in tenths;
\* -1 for a value that is not a number
TenthsOf(v) ==
    CASE v = "7" -> 70 [] v = "8.0" -> 80 [] v = "8 %" -> 80 [] v = "10.2%" -> 102
      [] OTHER -> -1

\* a numeric condition as the claim reads it
NumericallyMet(condition, actual) ==
    /\ TenthsOf(actual) >= 0 /\ TenthsOf(condition.value) >= 0
    /\ IF condition.type = "greater_than" THEN TenthsOf(actual) > TenthsOf(condition.value)
                                          ELSE TenthsOf(actual) < TenthsOf(condition.value)

\* C28: a single greater_than (less_than) rule fires exactly when the field's
\* value without its percent sign is a number greater (less) than the rule's
\* value without its percent sign, and never when a side is not a number;
\* value "8.0" fires against the field value "10.2%".
C28_NumericRuleFiresOnNumericOrder ==
    \A i \in FormCalls :
        (Len(SimpleRules) = 1 /\ SimpleRules[1].condition.type \in {"greater_than", "less_than"}) =>
            LET condition == SimpleRules[1].condition
                actual == BaseForm.form_data[condition.field]["value"]
                logic == formOut[i].form.form_metadata["conditional_logic"]
            IN  /\ logic.rules_triggered = 1 <=> NumericallyMet(condition, actual)
                /\ logic.rules_triggered \in {0, 1}
                /\ (condition = [type |-> "greater_than", field |-> "f1", value |-> "8.0"]
                      /\ actual = "10.2%") => logic.rules_triggered = 1

C28_Witness ==
    /\ Len(formOut) >= 1 /\ formOut[1].kind = "returned"
    /\ Len(SimpleRules) = 1
    /\ SimpleRules[1].condition = [type |-> "greater_than", field |-> "f1", value |-> "8.0"]
    /\ formOut[1].form.form_data["f1"]["value"] = "10.2%"
    /\ formOut[1].form.form_metadata["conditional_logic"].rules_triggered = 1

\* how often a field is listed
CountIn(seq, x) == Cardinality({k \in 1..Len(seq) : seq[k] = x})

\* make_required acted on the field and no set_value did, so the value the
\* triggers met is the value the field has
RequiredByRuleOnly(entry) ==
    Has(entry, "conditional_requirement") /\ ~Has(entry, "conditional_value")

\* C29: a field with an empty value that make_required was triggered on, once
\* or several times, by one rule or by two, is in missing_fields exactly once,
\* also when base population had listed it already.
C29_MakeRequiredListsOnce ==
    \A i \in FormCalls :
        \A f \in DOMAIN formOut[i].form.form_data :
            LET entry == formOut[i].form.form_data[f]
            IN  (RequiredByRuleOnly(entry) /\ IsFalsyOrBlank(entry["value"])) =>
                    CountIn(MissingOf(i), f) = 1

C29_Witness ==
    /\ Len(formOut) >= 1 /\ formOut[1].kind = "returned"
    /\ formIn.schema0["field_mappings"]["f2"].required
    /\ Len(SimpleRules) = 2
    /\ formOut[1].form.form_metadata["conditional_logic"].conditional_requirements_added = 4
    /\ IsFalsyOrBlank(formOut[1].form.form_data["f2"]["value"])
    /\ CountIn(MissingOf(1), "f2") = 1

\* the counters _apply_conditional_rules starts from
NoLogic == [rules_evaluated |-> 0, rules_triggered |-> 0, llm_inferences |-> 0,
            conditional_requirements_added |-> 0, conditional_values_set |-> 0]

\* the form after one rule met `form`
AfterRule(rule, form) ==
    IF EvaluateSimpleRule(rule, form.form_data)
    THEN ApplyRuleActions(rule.actions, form, NoLogic)[1] ELSE form

Fired(rule, form) == IF EvaluateSimpleRule(rule, form.form_data) THEN 1 ELSE 0

\* C30: the first declared rule is evaluated on the form with every field
\* base-populated, the second on the form as the first rule left it, and the
\* form returned is what the second leaves; a set_value of the first rule
\* decides whether the second fires.
C30_RulesChainInDeclaredOrder ==
    \A i \in FormCalls :
        LET logic == formOut[i].form.form_metadata["conditional_logic"]
            setsF1 == << [type |-> "set_value", field |-> "f1", value |-> "7",
                          confidence |-> 70] >>
        IN  /\ Len(SimpleRules) = 1 =>
                  /\ logic.rules_triggered = Fired(SimpleRules[1], BaseForm)
                  /\ formOut[i].form.form_data = AfterRule(SimpleRules[1], BaseForm).form_data
            /\ Len(SimpleRules) = 2 =>
                  LET after1 == AfterRule(SimpleRules[1], BaseForm)
                  IN  /\ logic.rules_evaluated = 2
                      /\ logic.rules_triggered
                            = Fired(SimpleRules[1], BaseForm) + Fired(SimpleRules[2], after1)
                      /\ formOut[i].form.form_data
                            = AfterRule(SimpleRules[2], after1).form_data
                      /\ ( /\ Fired(SimpleRules[1], BaseForm) = 1
                           /\ SimpleRules[1].actions = setsF1
                           /\ SimpleRules[2].condition.field = "f1"
                           /\ SimpleRules[2].condition.value \in {"8.0", "8 %"} )
                            => logic.rules_triggered
                                  = IF SimpleRules[2].condition.type = "less_than"
                                    THEN 2 ELSE 1

C30_Witness ==
    /\ Len(formOut) >= 1 /\ formOut[1].kind = "returned"
    /\ Len(SimpleRules) = 2
    /\ formIn.entities0["f1"] = "10.2%"
    /\ SimpleRules[1].condition.type = "empty"
    /\ SimpleRules[1].actions[1].type = "set_value" /\ SimpleRules[1].actions[1].field = "f1"
    /\ SimpleRules[2].condition = [type |-> "greater_than", field |-> "f1", value |-> "8.0"]
    /\ formOut[1].form.form_metadata["conditional_logic"].rules_triggered = 1
    /\ formOut[1].form.form_data["f1"]["value"] = "7"

\* the rules of the schema the caller passed that fired, and the set_value
\* actions they applied to a field of the form, in the order applied
ComplexRules == formIn.schema0["conditional_rules"].complex_inference_rules
FiredRuleActions ==
    (IF Len(SimpleRules) = 1 /\ EvaluateSimpleRule(SimpleRules[1], BaseForm.form_data)
     THEN SimpleRules[1].actions ELSE << >>)
    \o (IF Len(ComplexRules) = 1 /\ formIn.llm = "yes" THEN ComplexRules[1].actions ELSE << >>)
IsSetValueOn(a, f) == a.type = "set_value" /\ a.field = f
SetValuesOn(f) ==
    LET OnField(a) == IsSetValueOn(a, f) IN SelectSeq(FiredRuleActions, OnField)
CountedFields(fields) ==
    {f \in fields :
        \/ BaseForm.form_data[f]["value"] \notin {None, ""}
        \/ \E k \in 1..Len(SetValuesOn(f)) : ~IsFalsyOrBlank(SetValuesOn(f)[k].value)}

\* C31: a field that set_value actions were applied to holds the value and
\* the confidence of the last of them and is marked rule-derived; it is not
\* in missing_fields when that value is non-empty; populated_fields_count is
\* the number of fields that base population or a non-empty set_value gave a
\* value, each counted once, and never exceeds total_fields_count.
C31_SetValueCountsFieldOnce ==
    \A i \in FormCalls :
        LET form == formOut[i].form
            md == form.form_metadata
        IN  /\ md.populated_fields_count = Cardinality(CountedFields(DOMAIN form.form_data))
            /\ md.populated_fields_count <= md.total_fields_count
            /\ \A f \in DOMAIN form.form_data :
                  LET sets == SetValuesOn(f)
                  IN  sets # << >> =>
                        /\ form.form_data[f]["value"] = sets[Len(sets)].value
                        /\ form.form_data[f]["confidence"] = sets[Len(sets)].confidence
                        /\ form.form_data[f]["conditional_value"]
                        /\ ~IsFalsyOrBlank(sets[Len(sets)].value) => ~Contains(md.missing_fields, f)

\* f1 arrived with a value; a simple rule and then a complex rule set it again
C31_Witness ==
    /\ Len(formOut) >= 1 /\ formOut[1].kind = "returned"
    /\ DOMAIN formOut[1].form.form_data = {"f1", "f2"}
    /\ formIn.entities0["f1"] = "no" /\ formIn.entities0["f2"] = "Jane"
    /\ Len(SetValuesOn("f1")) = 2
    /\ SetValuesOn("f1")[1].value = "Jane" /\ SetValuesOn("f1")[2].value = "Jane"
    /\ formOut[1].form.form_metadata.populated_fields_count = 2
    /\ formOut[1].form.form_metadata.total_fields_count = 2

\* the real call each availability probe stands before
ProbeOf(name) ==
    CASE name = "perform_tesseract_ocr" -> "check_ocr_availability"
      [] name = "perform_llamaparse_with_metadata" -> "check_parsing_availability"
      [] name = "extract_entities_with_gemini" -> "check_llm_availability"
      [] OTHER -> "none"

ProbedFalse(stage, probe) ==
    \E i \in 1..Len(callLog) :
        callLog[i][1] = stage /\ callLog[i][2] = probe /\ callLog[i][4] = "False"

\* C32: a real OCR, parse or reasoning call of a run directly follows its
\* own probe answering True in the same stage; a stage whose probe answered
\* False made no real call to that collaborator; the OCR stage is then
\* skipped and the structured strategy of a completed DocumentParsing is
\* recorded as failed; a populate_form call under an unavailable reasoning
\* service makes no reasoning call and triggers no complex rule.
C32_NoRealCallWhileProbeUnavailable ==
    /\ \A i \in 1..Len(callLog) :
          ProbeOf(callLog[i][2]) # "none" =>
              /\ i > 1
              /\ callLog[i - 1][1] = callLog[i][1]
              /\ callLog[i - 1][2] = ProbeOf(callLog[i][2])
              /\ callLog[i - 1][4] = "True"
    /\ \A i \in 1..Len(callLog) :
          ProbeOf(callLog[i][2]) # "none" => ~ProbedFalse(callLog[i][1], ProbeOf(callLog[i][2]))
    /\ ProbedFalse("ocr_processing", "check_ocr_availability") =>
          runStatus["ocr_processing"] = "skipped"
    /\ ( /\ ProbedFalse("document_parsing", "check_parsing_availability")
         /\ runStatus["document_parsing"] = "completed" ) =>
          ~stage_results["document_parsing"]["result"]["parsing_methods"]["llamaparse"]["success"]
    /\ \A i \in FormCalls :
          formIn.llm = "unavailable" =>
              /\ formOut[i].llm_calls = 0
              /\ formOut[i].form.form_metadata["conditional_logic"].rules_triggered = 0

\* a run whose OCR probe and reasoning probe both answered False
C32_Witness ==
    /\ ProbedFalse("ocr_processing", "check_ocr_availability")
    /\ ProbedFalse("entity_extraction", "check_llm_availability")
    /\ CallsTo("perform_tesseract_ocr") = {} /\ CallsTo("extract_entities_with_gemini") = {}

\* a run whose parsing probe answered False
C32_WitnessParsing ==
    /\ ProbedFalse("document_parsing", "check_parsing_availability")
    /\ CallsTo("perform_llamaparse_with_metadata") = {}
    /\ CallsTo("extract_with_pdfplumber") # {}

\* a populate_form call with a complex rule under an unavailable service
C32_WitnessComplexRule ==
    /\ Len(formOut) >= 1 /\ formOut[1].kind = "returned"
    /\ formIn.llm = "unavailable"
    /\ Len(ComplexRules) = 1
    /\ formOut[1].llm_calls = 0

\* C33 as stated: whatever the configured limit, each wait is the same
\* multiple, greater than one, of the wait before it, and a call that used up
\* its attempts waited before every attempt but the first and not after the
\* last.
C33_WaitsGrowGeometrically ==
    /\ Len(retry.waits) <= retry.limit - 1
    /\ retry.pc = "raised" => Len(retry.waits) = retry.limit - 1
    /\ \A k \in 2..Len(retry.waits) : retry.waits[k] > retry.waits[k - 1]
    /\ \A k \in 3..Len(retry.waits) :
          retry.waits[k] * retry.waits[k - 2] = retry.waits[k - 1] * retry.waits[k - 1]

\* the waits the loop makes: two seconds more each time
C33_WaitsGrowLinearly ==
    /\ Len(retry.waits) <= retry.limit - 1
    /\ retry.pc = "raised" => Len(retry.waits) = retry.limit - 1
    /\ \A k \in 1..Len(retry.waits) : retry.waits[k] = 2 * k

\* a limit of four used up: waits of 2, 4 and 6 seconds
C33_Witness ==
    /\ retry.pc = "raised" /\ retry.limit = 4
    /\ retry.waits = << 2, 4, 6 >>

\* the calls of the current run that reached a collaborator and came back so
CallsBack(name, back) == {i \in CallsTo(name) : callLog[i][4] = back}

\* C34 as stated: a structured parse that fails was attempted
\* GEMINI_MAX_RETRIES times before the stage saw ParsingError, and an OCR
\* that fails was attempted as often and reached the stage as a raised error.
C34_OcrAndParsingRetried ==
    /\ CallsBack("perform_llamaparse_with_metadata", "raised") # {} =>
          Cardinality(CallsBack("parser.load_data", "raised")) = GEMINI_MAX_RETRIES
    /\ CallsBack("service.perform_ocr_on_pdf", "failure") # {} =>
          /\ Cardinality(CallsBack("service.perform_ocr_on_pdf", "failure")) = GEMINI_MAX_RETRIES
          /\ CallsBack("perform_tesseract_ocr", "raised") # {}

\* C34, what the code does: each of the two is attempted once, a failed
\* parse reaches the stage as ParsingError, a failed OCR as a returned dict.
C34_OcrAndParsingAttemptedOnce ==
    /\ Cardinality(CallsTo("parser.load_data")) <= 1
    /\ Cardinality(CallsTo("service.perform_ocr_on_pdf")) <= 1
    /\ CallsBack("parser.load_data", "raised") # {} =>
          CallsBack("perform_llamaparse_with_metadata", "raised") # {}
    /\ CallsTo("perform_tesseract_ocr") = CallsBack("perform_tesseract_ocr", "returned")

\* a run whose OCR and whose structured parse both failed at the first attempt
C34_Witness ==
    /\ Cardinality(CallsBack("service.perform_ocr_on_pdf", "failure")) = 1
    /\ Cardinality(CallsBack("parser.load_data", "raised")) = 1
    /\ runStatus["document_parsing"] # "none"

\* the pdf_generation record the store holds for the document of this run
StoredPdf == procFiles[document_id]["pdf_generation"]["data"]

\* the tier whose write of the output file was the last one
FinalTier ==
    IF TierBack("_generate_simple_data_pdf", "returned") THEN "simple_data_pdf"
    ELSE IF TierBack("_generate_hybrid_pdf", "returned") THEN "hybrid_overlay"
    ELSE "form_filling"

HasFieldCount(record) ==
    \/ Has(record, "fields_included")
    \/ /\ Has(record, "generation_stats")
       /\ Has(record["generation_stats"]["fill_statistics"], "fields_filled")

\* C35 as stated: after a completed PdfGeneration the stored record holds
\* output_path, the file size, a count of fields, and under generation_method
\* a tag of the tier that wrote the output file last.
C35_RecordCarriesGenerationMethod ==
    runStatus["pdf_generation"] = "completed" =>
        /\ Has(procFiles[document_id], "pdf_generation")
        /\ HasAll(StoredPdf, << "output_path", "file_size_kb", "generation_method" >>)
        /\ HasFieldCount(StoredPdf)
        /\ FinalTier # "simple_data_pdf" => StoredPdf["generation_method"] = FinalTier

\* C35, what the code stores: the record is the stage's result, with
\* output_path, file size and a count of fields; the tier is named under
\* generation_method by template fill and the overlay, and under
\* generation_type only by the data document.
C35_RecordCarriesMethodOrType ==
    runStatus["pdf_generation"] = "completed" =>
        /\ Has(procFiles[document_id], "pdf_generation")
        /\ StoredPdf = PdfResult
        /\ HasAll(StoredPdf, << "output_path", "file_size_kb" >>)
        /\ HasFieldCount(StoredPdf)
        /\ PdfTier = FinalTier
        /\ Has(StoredPdf, "generation_method") <=> FinalTier # "simple_data_pdf"

\* no template exists and the data document was written
C35_Witness ==
    /\ runStatus["pdf_generation"] = "completed"
    /\ ~TemplateExists
    /\ TierBack("_generate_simple_data_pdf", "returned")
    /\ ~Has(StoredPdf, "generation_method")
    /\ StoredPdf["generation_type"] = "simple_data_pdf"

\* the populated form held in the FormFilling result of the run state
HeldForm(results) == results["form_filling"]["result"]["populated_form"]

\* C36 as stated: once a stage of the current run has ended, no later step
\* of the run changes the status or the result recorded for it.
C36_StageResultsImmutable ==
    [][\A s \in Stages : runStatus[s] # "none" => stage_results'[s] = stage_results[s]]_vars

\* C36, what the code does: the only change to a recorded result is the one
\* template fill makes during PdfGeneration, which writes the key
\* pdf_generation into form_metadata of the populated form that the
\* FormFilling result holds; statuses and every other payload stay.
C36_OnlyTemplateFillWritesIntoFormResult ==
    [][\A s \in Stages :
          (runStatus[s] # "none" /\ stage_results'[s] # stage_results[s]) =>
              /\ s = "form_filling" /\ pc = "pdf_generation"
              /\ Has(HeldForm(stage_results')["form_metadata"], "pdf_generation")
              /\ stage_results'[s] =
                    [stage_results[s] EXCEPT
                        !["result"]["populated_form"]["form_metadata"] =
                            Update(@, [pdf_generation |->
                                         HeldForm(stage_results')["form_metadata"]["pdf_generation"]])]]_vars

\* PdfGeneration ended and the FormFilling result holds what template fill wrote
C36_Witness ==
    /\ runStatus["pdf_generation"] = "completed"
    /\ runStatus["form_filling"] = "completed"
    /\ Has(HeldForm(stage_results)["form_metadata"], "pdf_generation")

\* the OCR stage of this run found needs_ocr true, the probe answered True
\* and the OCR service returned its success dict with the extracted text
OcrSucceeded ==
    /\ funcOutcome["ocr_processing"].ran
    /\ CallsBack("check_ocr_availability", "True") # {}
    /\ CallsBack("service.perform_ocr_on_pdf", "success") # {}

\* C37 as stated: after a successful OCR the stage is Completed, its result
\* carries the extracted text, and the text is stored under ocr_processing.
C37_SuccessfulOcrCompletes ==
    OcrSucceeded =>
        /\ runStatus["ocr_processing"] = "completed"
        /\ Has(StageResultOf(stage_results, "ocr_processing"), "extracted_text")
        /\ Has(procFiles[document_id], "ocr_processing")

\* C37, what the code does: the stage reads the key confidence_score, which
\* the OCR service's dict does not carry, so the stage is Skipped with the
\* KeyError's text as reason and no ocr_processing entry is ever stored.
C37_SuccessfulOcrIsSkipped ==
    /\ OcrSucceeded =>
          /\ runStatus["ocr_processing"] = "skipped"
          /\ stage_results["ocr_processing"]
                = [status |-> "skipped", reason |-> "'confidence_score'"]
    /\ \A d \in DocIds : ~Has(procFiles[d], "ocr_processing")

\* a scanned PDF, OCR available and successful, and parsing started next
C37_Witness ==
    /\ OcrSucceeded
    /\ StageResultOf(stage_results, "pdf_analysis")["needs_ocr"]
    /\ runStatus["ocr_processing"] = "skipped"
    /\ funcOutcome["document_parsing"].ran

\* what DocumentParsing of this run recorded
ParsingResult == StageResultOf(stage_results, "document_parsing")

GeometryOnly ==
    /\ funcOutcome["document_parsing"].ran
    /\ ~StrategySucceeded("perform_llamaparse_with_metadata")
    /\ StrategySucceeded("extract_with_pdfplumber")

BothSucceeded ==
    /\ funcOutcome["document_parsing"].ran
    /\ StrategySucceeded("perform_llamaparse_with_metadata")
    /\ StrategySucceeded("extract_with_pdfplumber")

\* C38 as stated: when only the geometry extraction returns, the stage is
\* Completed with that strategy recorded as succeeded, the structured one as
\* failed, and the geometry's page text as primary content; when both return
\* and the stage completed, the primary content is the structured parse's
\* markdown.
C38_GeometryAloneCompletesParsing ==
    /\ GeometryOnly =>
          /\ runStatus["document_parsing"] = "completed"
          /\ ParsingResult["parsing_methods"]["pdfplumber"]["success"]
          /\ ~ParsingResult["parsing_methods"]["llamaparse"]["success"]
          /\ ParsingResult["primary_content"]
                = GetPrimaryContent(ParsingResult["parsing_methods"])
    /\ (BothSucceeded /\ runStatus["document_parsing"] = "completed") =>
          ParsingResult["primary_content"]
              = ParsingResult["parsing_methods"]["llamaparse"]["markdown_content"]

\* C38, what the code does: the stage reads the key extracted_data, which
\* extract_with_pdfplumber's dict does not carry, so a geometry extraction
\* that returned is recorded as failed; alone it fails the stage, and beside
\* a structured parse the markdown is the primary content.
C38_GeometryNeverRecordedAsSucceeded ==
    /\ GeometryOnly =>
          /\ runStatus["document_parsing"] = "failed"
          /\ funcOutcome["document_parsing"].msg
                = "Document parsing failed: All parsing methods failed"
    /\ (BothSucceeded /\ runStatus["document_parsing"] = "completed") =>
          /\ ParsingResult["parsing_methods"]["pdfplumber"]
                = [success |-> FALSE, error |-> "'extracted_data'"]
          /\ ParsingResult["primary_content"]
                = ParsingResult["parsing_methods"]["llamaparse"]["markdown_content"]

\* the structured parse raised, the geometry extraction returned
C38_Witness ==
    /\ GeometryOnly
    /\ CallsBack("perform_llamaparse_with_metadata", "raised") # {}
    /\ runStatus["document_parsing"] = "failed"

\* the run state with every entry erased that no stage of the current run
\* has assigned
AssignedThisRun(s) == runStatus[s] \in {"completed", "skipped"}
CurrentResults == [s \in Stages |-> IF AssignedThisRun(s) THEN stage_results[s] ELSE EmptyDict]

ExtractedEntities(results) ==
    Get(StageResultOf(results, "entity_extraction"), "extracted_entities", EmptyDict)
HeldPopulatedForm(results) ==
    Get(StageResultOf(results, "form_filling"), "populated_form", EmptyDict)

\* what the stage about to run reads from the run state is what it would
\* read had the entries of earlier runs been erased
ReadsOnlyThisRun ==
    /\ pc = "ocr_processing" => NeedsOcr(stage_results) = NeedsOcr(CurrentResults)
    /\ pc = "entity_extraction" =>
          GetDocumentContent(stage_results) = GetDocumentContent(CurrentResults)
    /\ pc = "form_filling" =>
          ExtractedEntities(stage_results) = ExtractedEntities(CurrentResults)
    /\ pc = "pdf_generation" =>
          HeldPopulatedForm(stage_results) = HeldPopulatedForm(CurrentResults)

\* the step in which a stage ends completed or skipped assigns its entry: the
\* result just stored for the document, or the reason it was skipped for
AssignsOnEnding ==
    \A s \in Stages :
        (pc = s /\ AssignedThisRun(s)') =>
            \/ /\ runStatus'[s] = "completed"
               /\ stage_results'[s]["status"] = "completed"
               /\ procFiles'[document_id][s]["timestamp"] = now
               /\ stage_results'[s]["result"] = procFiles'[document_id][s]["data"]
            \/ /\ runStatus'[s] = "skipped"
               /\ stage_results'[s] = [status |-> "skipped", reason |-> funcOutcome'[s].msg]

\* C39: in every run on the same orchestrator, the needs_ocr flag, the
\* document content, the entities and the populated form a stage reads come
\* from entries assigned during that run, and an ending stage assigns its
\* entry in the step it ends, whatever entries earlier runs left behind.
C39_StagesReadOnlyThisRunsResults ==
    /\ []ReadsOnlyThisRun
    /\ [][AssignsOnEnding]_vars

\* a second run about to fill the form from its own, empty entities while
\* the form and the PDF record of the first run are still in the run state
C39_Witness ==
    /\ runs = 2 /\ pc = "form_filling"
    /\ ~AssignedThisRun("form_filling") /\ ~AssignedThisRun("pdf_generation")
    /\ ~IsEmpty(HeldPopulatedForm(stage_results))
    /\ Get(stage_results["pdf_generation"], "status", None) = "completed"
    /\ IsEmpty(ExtractedEntities(stage_results))

TierNames == << "generate_filled_pdf", "_generate_hybrid_pdf", "_generate_simple_data_pdf" >>

\* every call to the first tier comes before every call to the second
CalledBefore(first, second) ==
    \A i \in TierCalls(first), j \in TierCalls(second) : i < j

\* C40 as stated: in one PdfGeneration stage each tier is called at most once,
\* template fill before the overlay and the overlay before the data document.
C40_EachTierOnceInOrder ==
    /\ \A k \in 1..Len(TierNames) : Cardinality(TierCalls(TierNames[k])) <= 1
    /\ CalledBefore("generate_filled_pdf", "_generate_hybrid_pdf")
    /\ CalledBefore("generate_filled_pdf", "_generate_simple_data_pdf")
    /\ CalledBefore("_generate_hybrid_pdf", "_generate_simple_data_pdf")

\* C40, what the code does: template fill is called at most once and first;
\* the overlay and the data document are called at most twice, the second
\* time only when template fill returned, the overlay fell back and the data
\* document raised; each data document call directly follows an overlay that
\* fell back or, with no template, the probes.
C40_OverlayEnteredAtMostTwice ==
    /\ Cardinality(TierCalls("generate_filled_pdf")) <= 1
    /\ Cardinality(TierCalls("_generate_hybrid_pdf")) <= 2
    /\ Cardinality(TierCalls("_generate_simple_data_pdf")) <= 2
    /\ CalledBefore("generate_filled_pdf", "_generate_hybrid_pdf")
    /\ CalledBefore("generate_filled_pdf", "_generate_simple_data_pdf")
    /\ Cardinality(TierCalls("_generate_hybrid_pdf")) = 2 =>
          /\ TierBack("generate_filled_pdf", "returned")
          /\ \E i \in TierCalls("_generate_simple_data_pdf") :
                /\ callLog[i][4] = "raised"
                /\ callLog[i - 1] = << "pdf_generation", "_generate_hybrid_pdf", EmptyText,
                                       "fell back" >>
                /\ callLog[i + 1][2] = "_generate_hybrid_pdf"
    /\ \A i \in TierCalls("_generate_simple_data_pdf") :
          \/ callLog[i - 1][2] = "_generate_hybrid_pdf" /\ callLog[i - 1][4] = "fell back"
          \/ ~TemplateExists

\* template fill matched no field, the overlay fell back, the data document
\* raised, and the overlay and the data document were entered once more
C40_Witness ==
    /\ funcOutcome["pdf_generation"].ran
    /\ Cardinality(TierCalls("_generate_hybrid_pdf")) = 2
    /\ Cardinality(TierCalls("_generate_simple_data_pdf")) = 2
    /\ runStatus["pdf_generation"] = "completed"

====
